---- MODULE Spec2Model ----
(***************************************************************************)
(* Model of the export / dirty-tracking core of trackmeet                  *)
(* (src/src/trackmeet/__init__.py): the event directory with its depend    *)
(* lists and dirty flags, check_depends_dirty, the export worker           *)
(* (__run_data_export), the export request callback, the mirror thread     *)
(* and the clock tick that reaps finished workers.                         *)
(***************************************************************************)
EXTENDS Integers, Sequences, FiniteSets, TLC

VARIABLES
    edb,          \* event directory: event ids in program order (self.edb)
    depend,       \* depend[e]: the ids of e['depe'].split(), in order
    dirty,        \* dirty[e]: e['dirty'] (column key 'dirt')
    result,       \* result[e]: e['result'], the "include in result export" flag
    artifact,     \* artifact[e]: what export/event_<e>.* holds
    threads,      \* export worker thread objects, by slot
    exporter,     \* self.exporter: 0 (None) or the slot of a thread object
    exportlock,   \* self.exportlock is held
    mirrors,      \* slots of the mirror thread objects that are alive
    mirror,       \* self.mirror: 0 (None) or the slot of a mirror thread object
    idle_mirror,  \* number of mirror_start callbacks queued by GLib.idle_add
    mirrorpath,   \* self.mirrorpath is configured (non-empty)
    lastCheck,    \* record of the last top-level check_depends_dirty call
    hist,         \* history of export passes since the last control-path change
    commalloc,    \* self.commalloc: report key -> communique number (a string)
    lastComm,     \* record of the last find_communique call: its key, return
                  \* value, the map before it, and whether the call before it
                  \* had the same key
    auto,         \* auto[e]: e['auto'], the stored autospec, as its groups
    evtype,       \* evtype[e]: the type of the handler mkrace makes for e
    finished,     \* finished[e]: h.finished of e's handler after loadconfig
    standing,     \* standing[e]: h.standingstr() == 'Result'
    results,      \* results[e]: the rows h.result_gen() yields
    autorecurse,  \* self.autorecurse
    lastAuto,     \* record of the last top-level autospec resolution
    wload,        \* the source whose handler the export worker is loading
                  \* inside an autospec resolution, and the target event
    index,        \* index[e]: e['inde'], the "include in index" flag
    program,      \* program[e]: e['program'], the "include in program" flag
    refe,         \* refe[e]: e['refe'], the reference number override (0: none)
    nextlinks,    \* self.nextlinks: reference number -> page
    prevlinks,    \* self.prevlinks: reference number -> page
    relinked,     \* updatenexprev has run
    evov,         \* evov[e]: e['evov'], the number printed in place of the id
    renumbered,   \* number of event renumberings made
    shut,         \* where shutdown() is: "no" before it is called
    conf,         \* conf[e]: the version of e's configuration file on disk,
                  \* for the events saved so far (a save writes the next)
    loaded,       \* loaded[t]: the version worker t's loadconfig() read
    expconf,      \* expconf[e]: the version e's exported artifacts show,
                  \* for the events exported so far
    ctl,          \* the handler the control path is inside, and its event
    exportpending, \* self.exportpending
    idle_export,  \* number of exportcb callbacks queued by GLib.idle_add
    curevent,     \* the event open in the window (self.curevent with
                  \* winopen), 0 when none is
    batch         \* the delayed_export calls, exportcb runs, saves and export
                  \* requests since a call last found the queue empty

\* the state of report numbering
commvars == <<commalloc, lastComm>>

\* the state of autospec resolution
autovars == <<auto, evtype, finished, standing, results, autorecurse, lastAuto>>

\* the state that the export machinery never touches
\* further state of the meet
fieldvars == <<index, refe, evov, program>>
navvars == <<nextlinks, prevlinks, relinked>>
\* state of the running application
savevars == <<conf, loaded, expconf, ctl>>
delayvars == <<exportpending, idle_export, curevent, batch>>
runvars == <<shut, savevars, delayvars>>
meetvars == <<wload, fieldvars, navvars, renumbered, runvars>>

reportvars == <<commvars, autovars, meetvars>>

vars == <<edb, depend, dirty, result, artifact, threads, exporter,
          exportlock, mirrors, mirror, idle_mirror, mirrorpath, lastCheck, hist,
          reportvars>>

(***************************************************************************)
(* Bounds                                                                  *)
(***************************************************************************)
\* events in the directory of the dependency-graph specification
NumEvents == 3
\* total number of dependency entries the user may enter over all events
MaxEdges == 3
\* events in the directory of the meet specifications
MeetEvents == 2
\* thread objects of one kind that can exist at once
MaxThreads == 2
\* queued mirror_start idle callbacks
MaxIdle == 2

Events == {edb[i] : i \in 1..Len(edb)}
\* ids a depend list may name: the events and one id that names no event
Ids == 1..(Len(edb) + 1)

Range(s) == {s[i] : i \in 1..Len(s)}

(***************************************************************************)
(* check_depends_dirty                                                     *)
(*                                                                         *)
(* The operator returns what the call leaves behind: its return value      *)
(* (ret), the dirty flags after its side effects (dirty), and whether the  *)
(* recursion nested deeper than RecursionLimit (over), where Python raises *)
(* RecursionError.                                                         *)
(***************************************************************************)
\* every nested call enters an id that is not in checks and adds it, so a
\* call nested deeper than the number of ids has entered some id twice on
\* its path; the interpreter's limit is modelled at that depth
RecursionLimit == Cardinality(Ids)

RECURSIVE check_depends_dirty(_, _, _, _)
RECURSIVE scan_dependencies(_, _, _, _, _)

\* scan_dependencies with the test "dev not in checks" left out
scan_no_visited(evno, i, checks, d, level) ==
    IF i > Len(depend[evno]) \/ d[evno]
    THEN [ret |-> d[evno], dirty |-> d, over |-> FALSE]
    ELSE LET dev == depend[evno][i]
             dep == check_depends_dirty(dev, checks, d, level + 1)
         IN IF dep.over THEN dep
            ELSE scan_dependencies(evno, i + 1, checks \cup {dev},
                     IF dep.ret THEN [dep.dirty EXCEPT ![evno] = TRUE]
                                ELSE dep.dirty,
                     level)

\* scan_dependencies looking only at the dependency's own flag, no recursion
scan_direct_only(evno, i, checks, d, level) ==
    IF i > Len(depend[evno]) \/ d[evno]
    THEN [ret |-> d[evno], dirty |-> d, over |-> FALSE]
    ELSE LET dev == depend[evno][i] IN
         IF dev \in checks
         THEN scan_dependencies(evno, i + 1, checks, d, level)
         ELSE scan_dependencies(evno, i + 1, checks \cup {dev},
                  IF dev \in Events /\ d[dev] THEN [d EXCEPT ![evno] = TRUE] ELSE d,
                  level)

\* scan_dependencies returning True for a dirty dependency without the
\* assignment ev['dirty'] = True
scan_no_propagate(evno, i, checks, d, level) ==
    IF i > Len(depend[evno]) \/ d[evno]
    THEN [ret |-> d[evno], dirty |-> d, over |-> FALSE]
    ELSE LET dev == depend[evno][i] IN
         IF dev \in checks
         THEN scan_dependencies(evno, i + 1, checks, d, level)
         ELSE LET dep == check_depends_dirty(dev, checks, d, level + 1) IN
              IF dep.over \/ dep.ret THEN dep
              ELSE scan_dependencies(evno, i + 1, checks \cup {dev}, dep.dirty, level)

\* scan_dependencies leaving the loop at a dependency that is not in the
\* directory
scan_unknown_stops(evno, i, checks, d, level) ==
    IF i > Len(depend[evno]) \/ d[evno]
    THEN [ret |-> d[evno], dirty |-> d, over |-> FALSE]
    ELSE LET dev == depend[evno][i] IN
         IF dev \in checks
         THEN scan_dependencies(evno, i + 1, checks, d, level)
         ELSE IF dev \notin Events
         THEN [ret |-> d[evno], dirty |-> d, over |-> FALSE]
         ELSE LET dep == check_depends_dirty(dev, checks, d, level + 1) IN
              IF dep.over THEN dep
              ELSE scan_dependencies(evno, i + 1, checks \cup {dev},
                       IF dep.ret THEN [dep.dirty EXCEPT ![evno] = TRUE]
                                  ELSE dep.dirty,
                       level)

\* the loop "for dev in ev['depe'].split()" from its i-th entry on
scan_dependencies(evno, i, checks, d, level) ==
    IF i > Len(depend[evno]) \/ d[evno]
    THEN [ret |-> d[evno], dirty |-> d, over |-> FALSE]
    ELSE LET dev == depend[evno][i] IN
         IF dev \in checks
         THEN scan_dependencies(evno, i + 1, checks, d, level)
         ELSE LET dep == check_depends_dirty(dev, checks, d, level + 1) IN
              IF dep.over THEN dep
              ELSE scan_dependencies(evno, i + 1, checks \cup {dev},
                       IF dep.ret THEN [dep.dirty EXCEPT ![evno] = TRUE]
                                  ELSE dep.dirty,
                       level)

check_depends_dirty(evno, checked, d, level) ==
    IF level > RecursionLimit
    THEN [ret |-> FALSE, dirty |-> d, over |-> TRUE]
    ELSE IF evno \notin Events
    THEN [ret |-> FALSE, dirty |-> d, over |-> FALSE]
    ELSE scan_dependencies(evno, 1, checked \cup {evno}, d, level)

\* the events reachable from e through depend lists (e itself included)
RECURSIVE ReachFrom(_, _)
ReachFrom(frontier, seen) ==
    LET next == {x \in Events : \E y \in frontier : x \in Range(depend[y])} \ seen
    IN IF next = {} THEN seen ELSE ReachFrom(next, seen \cup next)

Reach(e) == ReachFrom({e}, {e})

NoCheck == [ev |-> 0, ret |-> FALSE, over |-> FALSE, before |-> <<>>]

(***************************************************************************)
(* Dependency-graph specification: the directory holds any depend lists and *)
(* dirty flags, and isDirty is called at top level on any event.           *)
(***************************************************************************)
\* export/event_<e>.*: "none" before any export, "all" when the four files
\* of the event were written by one pass and "some" when a pass failed
\* between them
NoArtifact == "none"

\* a thread slot holding no thread object
NoThread == [pc |-> "none", i |-> 0, dmap |-> <<>>]

\* no completed pass since the control path last changed an event
NoHist == [n |-> 0, clean |-> FALSE, dirty |-> <<>>, artifact |-> <<>>]

\* Python's None where the model holds a string
None == "<None>"

\* no find_communique call yet
NoComm == [key |-> None, ret |-> None, before |-> <<>>, twice |-> FALSE]

\* no autospec resolution yet
NoAuto == [form |-> None]

\* a meet in which no event has handler data to resolve from, with the
\* constructor's self.autorecurse = set()
NoLoad == [ev |-> 0, src |-> 0]

\* shutdown() has not been called; at is the position inside shutdown()
\* and joined the workers it has called join() on
NotShut == [at |-> "no", joined |-> {}]

\* no delayed_export call yet
NoBatch == [calls |-> 0, ran |-> 0, saves |-> 0, requests |-> 0, late |-> FALSE]

\* the control path is between callbacks
Idle == [op |-> "none", ev |-> 0]

\* the application is running: shutdown() has not been called
InitRun ==
    /\ shut = NotShut
    /\ conf = <<>>
    /\ loaded = <<>>
    /\ expconf = <<>>
    /\ ctl = Idle
    /\ exportpending = FALSE
    /\ idle_export = 0
    /\ curevent = 0
    /\ batch = NoBatch

\* no resolution under way in the export worker, no event fields, links
\* or renumberings
InitPlain ==
    /\ wload = NoLoad
    /\ index = <<>>
    /\ program = <<>>
    /\ refe = <<>>
    /\ nextlinks = <<>>
    /\ prevlinks = <<>>
    /\ relinked = FALSE
    /\ evov = <<>>
    /\ renumbered = 0
    /\ InitRun

InitNoAuto ==
    /\ InitPlain
    /\ auto = <<>>
    /\ evtype = <<>>
    /\ finished = <<>>
    /\ standing = <<>>
    /\ results = <<>>
    /\ autorecurse = {}
    /\ lastAuto = NoAuto

\* the constructor's report state: self.commalloc = {}
InitReport ==
    /\ commalloc = <<>>
    /\ lastComm = NoComm
    /\ InitNoAuto

InitRest ==
    /\ result = [e \in Events |-> TRUE]
    /\ artifact = [e \in Events |-> NoArtifact]
    /\ threads = [t \in 1..MaxThreads |-> NoThread]
    /\ exporter = 0
    /\ exportlock = FALSE
    /\ mirrors = {}
    /\ mirror = 0
    /\ idle_mirror = 0
    /\ mirrorpath = FALSE
    /\ lastCheck = NoCheck
    /\ hist = NoHist
    /\ InitReport

\* the depend lists the user can have entered: every way of writing at most
\* k ids, none twice in one list, into the depend fields of the events
RECURSIVE DependGraphs(_)
DependGraphs(k) ==
    IF k = 0 THEN {[e \in Events |-> <<>>]}
    ELSE LET G == DependGraphs(k - 1)
             Extend(g) == {[g EXCEPT ![p[1]] = Append(@, p[2])] :
                              p \in {q \in Events \X Ids : q[2] \notin Range(g[q[1]])}}
         IN G \cup UNION {Extend(g) : g \in G}

InitDirty ==
    /\ edb = [i \in 1..NumEvents |-> i]
    /\ depend \in DependGraphs(MaxEdges)
    /\ dirty \in [Events -> BOOLEAN]
    /\ InitRest

\* a top-level isDirty(e): check_depends_dirty(evno) with checked=None
top_check(e) ==
    LET r == check_depends_dirty(e, {}, dirty, 1) IN
    /\ dirty' = r.dirty
    /\ lastCheck' = [ev |-> e, ret |-> r.ret, over |-> r.over, before |-> dirty]
    /\ UNCHANGED reportvars
    /\ UNCHANGED <<edb, depend, result, artifact, threads, exporter,
                   exportlock, mirrors, mirror, idle_mirror, mirrorpath, hist>>

\* every directory state is an initial state, so one call is taken from
\* each: the state a call leaves is the initial state with those flags
NextDirty ==
    /\ lastCheck.ev = 0
    /\ \E e \in Events : top_check(e)

SpecDirty == InitDirty /\ [][NextDirty]_vars

(***************************************************************************)
(* The meet: control path (GLib main loop callbacks), export worker        *)
(* threads and mirror threads.                                             *)
(***************************************************************************)
Slots == 1..MaxThreads

\* Thread.is_alive() of the export thread object in slot t
Alive(t) == threads[t].pc \in {"scan", "clear", "load", "write"}

AliveExporters == {t \in Slots : Alive(t)}

Min(S) == CHOOSE x \in S : \A y \in S : x <= y

\* what is the same in every meet below: any dirty flags as loaded from
\* disk, nothing exported, no worker
InitMeet ==
    /\ dirty \in [Events -> BOOLEAN]
    /\ artifact = [e \in Events |-> NoArtifact]
    /\ threads = [t \in Slots |-> NoThread]
    /\ exporter = 0
    /\ exportlock = FALSE
    /\ mirrors = {}
    /\ mirror = 0
    /\ idle_mirror = 0
    /\ lastCheck = NoCheck
    /\ hist = NoHist
    /\ InitReport

\* a meet whose events each depend on the one before, with or without a
\* mirror destination
Init ==
    /\ edb = [i \in 1..MeetEvents |-> i]
    /\ depend = [e \in Events |-> IF e = 1 THEN <<>> ELSE <<e - 1>>]
    /\ result \in [Events -> BOOLEAN]
    /\ mirrorpath \in BOOLEAN
    /\ InitMeet

\* the same meet with every event flagged for result export
InitLive ==
    /\ edb = [i \in 1..MeetEvents |-> i]
    /\ depend = [e \in Events |-> IF e = 1 THEN <<>> ELSE <<e - 1>>]
    /\ result = [e \in Events |-> TRUE]
    /\ mirrorpath \in BOOLEAN
    /\ InitMeet

\* a meet with any depend lists of at most one id each (the id of any event
\* or an id that names no event), every event flagged for result export and
\* no mirror destination
InitExport ==
    /\ edb = [i \in 1..MeetEvents |-> i]
    /\ depend \in [Events -> {<<>>} \cup {<<dev>> : dev \in Ids}]
    /\ result = [e \in Events |-> TRUE]
    /\ mirrorpath = FALSE
    /\ InitMeet

\* menu_data_export_activate_cb with the is_alive test left out: a handle
\* that is set is dropped and a new worker started
export_cb_no_alive_test ==
    /\ ~exportlock
    /\ \E t \in Slots :
          /\ threads[t].pc = "none"
          /\ \A u \in Slots : threads[u].pc = "none" => t <= u
          /\ threads' = [u \in Slots |->
                           IF u = t THEN [NoThread EXCEPT !.pc = "scan", !.i = 1]
                           ELSE IF ~Alive(u) THEN NoThread ELSE threads[u]]
          /\ exporter' = t
    /\ hist' = [hist EXCEPT !.clean = TRUE]
    /\ UNCHANGED reportvars
    /\ UNCHANGED <<edb, depend, dirty, result, artifact, exportlock,
                   mirrors, mirror, idle_mirror, mirrorpath, lastCheck>>

\* menu_data_export_activate_cb leaving the lock held on its way out
export_cb_keeps_lock ==
    /\ ~exportlock
    /\ exportlock' = TRUE
    /\ IF exporter # 0
       THEN /\ IF ~Alive(exporter)
               THEN /\ exporter' = 0
                    /\ threads' = [threads EXCEPT ![exporter] = NoThread]
               ELSE UNCHANGED <<exporter, threads>>
            /\ UNCHANGED hist
       ELSE /\ threads' = [threads EXCEPT ![1] = [NoThread EXCEPT !.pc = "scan", !.i = 1]]
            /\ exporter' = 1
            /\ hist' = [hist EXCEPT !.clean = TRUE]
    /\ UNCHANGED reportvars
    /\ UNCHANGED <<edb, depend, dirty, result, artifact,
                   mirrors, mirror, idle_mirror, mirrorpath, lastCheck>>

\* The export request. The callback runs to completion on the control path;
\* the lock it takes with acquire(False) is released in its finally clause,
\* so exportlock is FALSE again when the action ends.  started = FALSE is
\* Thread.start() raising: the handle then names a thread that never ran.
menu_data_export_activate_cb ==
    /\ ~exportlock
    /\ IF exporter # 0
       THEN /\ IF ~Alive(exporter)
               THEN /\ exporter' = 0
                    /\ threads' = [threads EXCEPT ![exporter] = NoThread]
               ELSE UNCHANGED <<exporter, threads>>
            /\ UNCHANGED hist
       ELSE \E t \in Slots, started \in BOOLEAN :
               /\ threads[t].pc = "none"
               /\ \A u \in Slots : threads[u].pc = "none" => t <= u
               /\ threads' = [threads EXCEPT ![t] =
                      IF started THEN [NoThread EXCEPT !.pc = "scan", !.i = 1]
                                 ELSE [NoThread EXCEPT !.pc = "failed"]]
               /\ exporter' = t
               /\ hist' = IF started THEN [hist EXCEPT !.clean = TRUE] ELSE NoHist
    /\ exportlock' = FALSE
    /\ UNCHANGED reportvars
    /\ UNCHANGED <<edb, depend, dirty, result, artifact,
                   mirrors, mirror, idle_mirror, mirrorpath, lastCheck>>

\* how a worker's thread object is left when run() returns: kept while
\* self.exporter still names it, collected otherwise
Ended(t, how) ==
    IF exporter = t THEN [threads[t] EXCEPT !.pc = how] ELSE NoThread

\* run_data_export_scan with "if dirty:" left out: every event enters dmap
scan_marks_all(t) ==
    /\ threads[t].pc = "scan"
    /\ LET i == threads[t].i
           evno == edb[i]
           r == check_depends_dirty(evno, {}, dirty, 1)
       IN /\ dirty' = r.dirty
          /\ threads' = [threads EXCEPT ![t] =
                 [@ EXCEPT !.dmap = Append(@, evno),
                           !.i = IF i < Len(edb) THEN i + 1 ELSE 1,
                           !.pc = IF i < Len(edb) THEN "scan" ELSE "clear"]]
    /\ UNCHANGED reportvars
    /\ UNCHANGED <<edb, depend, result, artifact, exporter, exportlock,
                   mirrors, mirror, idle_mirror, mirrorpath, lastCheck, hist>>

\* run_data_export_scan testing the event's flag as it was before the call
\* to check_depends_dirty instead of the call's return value
scan_tests_old_flag(t) ==
    /\ threads[t].pc = "scan"
    /\ LET i == threads[t].i
           evno == edb[i]
           r == check_depends_dirty(evno, {}, dirty, 1)
       IN /\ dirty' = r.dirty
          /\ threads' = [threads EXCEPT ![t] =
                 [@ EXCEPT !.dmap = IF dirty[evno] THEN Append(@, evno) ELSE @,
                           !.i = IF i < Len(edb) THEN i + 1 ELSE 1,
                           !.pc = IF i < Len(edb) THEN "scan" ELSE "clear"]]
    /\ UNCHANGED reportvars
    /\ UNCHANGED <<edb, depend, result, artifact, exporter, exportlock,
                   mirrors, mirror, idle_mirror, mirrorpath, lastCheck, hist>>

\* the two loops of __run_data_export run as one: e['dirty'] = False as soon
\* as the event is found dirty, before the events after it are checked
scan_clears_as_found(t) ==
    /\ threads[t].pc = "scan"
    /\ LET i == threads[t].i
           evno == edb[i]
           r == check_depends_dirty(evno, {}, dirty, 1)
       IN /\ dirty' = IF r.ret THEN [r.dirty EXCEPT ![evno] = FALSE] ELSE r.dirty
          /\ threads' = [threads EXCEPT ![t] =
                 [@ EXCEPT !.dmap = IF r.ret THEN Append(@, evno) ELSE @,
                           !.i = IF i < Len(edb) THEN i + 1 ELSE 1,
                           !.pc = IF i < Len(edb) THEN "scan" ELSE "clear"]]
    /\ UNCHANGED reportvars
    /\ UNCHANGED <<edb, depend, result, artifact, exporter, exportlock,
                   mirrors, mirror, idle_mirror, mirrorpath, lastCheck, hist>>

\* __run_data_export, "for e in self.edb": one check_depends_dirty per step.
\* A RecursionError is caught by the except clause at the end of the pass.
run_data_export_scan(t) ==
    /\ threads[t].pc = "scan"
    /\ LET i == threads[t].i
           evno == edb[i]
           r == check_depends_dirty(evno, {}, dirty, 1)
       IN IF r.over
          THEN /\ threads' = [threads EXCEPT ![t] = Ended(t, "failed")]
               /\ hist' = NoHist
               /\ UNCHANGED dirty
          ELSE /\ dirty' = r.dirty
               /\ threads' = [threads EXCEPT ![t] =
                      [@ EXCEPT !.dmap = IF r.ret THEN Append(@, evno) ELSE @,
                                !.i = IF i < Len(edb) THEN i + 1 ELSE 1,
                                !.pc = IF i < Len(edb) THEN "scan" ELSE "clear"]]
               /\ UNCHANGED hist
    /\ UNCHANGED reportvars
    /\ UNCHANGED <<edb, depend, result, artifact, exporter, exportlock,
                   mirrors, mirror, idle_mirror, mirrorpath, lastCheck>>

\* the flag cleared only for an event flagged for result export, inside
\* "if doexport:"
run_data_export_clear_exported_only(t) ==
    /\ threads[t].pc = "clear"
    /\ threads[t].i <= Len(threads[t].dmap)
    /\ dirty' = IF result[threads[t].dmap[threads[t].i]]
                THEN [dirty EXCEPT ![threads[t].dmap[threads[t].i]] = FALSE]
                ELSE dirty
    /\ threads' = [threads EXCEPT ![t].pc = "load"]
    /\ UNCHANGED reportvars
    /\ UNCHANGED <<edb, depend, result, artifact, exporter, exportlock,
                   mirrors, mirror, idle_mirror, mirrorpath, lastCheck, hist>>

\* "for evno, e in dmap.items()": the next dirty event, e['dirty'] = False
run_data_export_clear(t) ==
    /\ threads[t].pc = "clear"
    /\ threads[t].i <= Len(threads[t].dmap)
    /\ dirty' = [dirty EXCEPT ![threads[t].dmap[threads[t].i]] = FALSE]
    /\ threads' = [threads EXCEPT ![t].pc = "load"]
    /\ UNCHANGED reportvars
    /\ UNCHANGED <<edb, depend, result, artifact, exporter, exportlock,
                   mirrors, mirror, idle_mirror, mirrorpath, lastCheck, hist>>

\* mkrace, loadconfig, startlist_report (and the reports built from the
\* handler): the handler reads the event's saved configuration, or raises
run_data_export_load(t) ==
    /\ threads[t].pc = "load"
    /\ \E ok \in BOOLEAN :
          LET evno == threads[t].dmap[threads[t].i] IN
          IF ok
          THEN /\ threads' = [threads EXCEPT ![t] =
                      IF result[evno]
                      THEN [@ EXCEPT !.pc = "write"]
                      ELSE [@ EXCEPT !.pc = "clear", !.i = @ + 1]]
               /\ UNCHANGED hist
          ELSE /\ threads' = [threads EXCEPT ![t] = Ended(t, "failed")]
               /\ hist' = NoHist
    /\ UNCHANGED reportvars
    /\ UNCHANGED <<edb, depend, dirty, result, artifact, exporter, exportlock,
                   mirrors, mirror, idle_mirror, mirrorpath, lastCheck>>

\* the four savefile blocks of one event: all written, or an I/O error
\* before the first file (written = "none") or between files ("some")
run_data_export_write(t) ==
    /\ threads[t].pc = "write"
    /\ LET evno == threads[t].dmap[threads[t].i] IN
       \E written \in {"all", "some", "none"} :
          /\ artifact' = IF written = "none" THEN artifact
                         ELSE [artifact EXCEPT ![evno] = written]
          /\ IF written = "all"
             THEN /\ threads' = [threads EXCEPT ![t] =
                         [@ EXCEPT !.pc = "clear", !.i = @ + 1]]
                  /\ UNCHANGED hist
             ELSE /\ threads' = [threads EXCEPT ![t] = Ended(t, "failed")]
                  /\ hist' = NoHist
    /\ UNCHANGED reportvars
    /\ UNCHANGED <<edb, depend, dirty, result, exporter, exportlock,
                   mirrors, mirror, idle_mirror, mirrorpath, lastCheck>>

\* the end of the pass without the test of self.mirrorpath
run_data_export_end_no_path_test(t) ==
    /\ threads[t].pc = "clear"
    /\ threads[t].i > Len(threads[t].dmap)
    /\ idle_mirror < MaxIdle
    /\ idle_mirror' = idle_mirror + 1
    /\ threads' = [threads EXCEPT ![t] = Ended(t, "ended")]
    /\ hist' = IF ~hist.clean THEN hist
               ELSE IF hist.n = 0
               THEN [n |-> 1, clean |-> TRUE, dirty |-> dirty, artifact |-> artifact]
               ELSE [hist EXCEPT !.n = 2]
    /\ UNCHANGED reportvars
    /\ UNCHANGED <<edb, depend, dirty, result, artifact, exporter, exportlock,
                   mirrors, mirror, mirrorpath, lastCheck>>

\* end of the pass: "if self.mirrorpath: GLib.idle_add(self.mirror_start)"
run_data_export_end(t) ==
    /\ threads[t].pc = "clear"
    /\ threads[t].i > Len(threads[t].dmap)
    /\ IF mirrorpath
       THEN idle_mirror < MaxIdle /\ idle_mirror' = idle_mirror + 1
       ELSE UNCHANGED idle_mirror
    /\ threads' = [threads EXCEPT ![t] = Ended(t, "ended")]
    /\ hist' = IF ~hist.clean THEN hist
               ELSE IF hist.n = 0
               THEN [n |-> 1, clean |-> TRUE, dirty |-> dirty, artifact |-> artifact]
               ELSE [hist EXCEPT !.n = 2]
    /\ UNCHANGED reportvars
    /\ UNCHANGED <<edb, depend, dirty, result, artifact, exporter, exportlock,
                   mirrors, mirror, mirrorpath, lastCheck>>

\* mirror_start without the test "self.mirror is None"
mirror_start_no_test ==
    /\ idle_mirror > 0
    /\ idle_mirror' = idle_mirror - 1
    /\ IF mirrorpath
       THEN \E m \in Slots :
               /\ m \notin mirrors
               /\ \A u \in Slots \ mirrors : m <= u
               /\ mirror' = m
               /\ mirrors' = mirrors \cup {m}
       ELSE UNCHANGED <<mirror, mirrors>>
    /\ UNCHANGED reportvars
    /\ UNCHANGED <<edb, depend, dirty, result, artifact, threads, exporter,
                   exportlock, mirrorpath, lastCheck, hist>>

\* mirror_start, run from the idle queue on the control path
mirror_start ==
    /\ idle_mirror > 0
    /\ idle_mirror' = idle_mirror - 1
    /\ IF mirrorpath /\ mirror = 0
       THEN \E m \in Slots :
               /\ m \notin mirrors
               /\ \A u \in Slots \ mirrors : m <= u
               /\ mirror' = m
               /\ mirrors' = mirrors \cup {m}
       ELSE UNCHANGED <<mirror, mirrors>>
    /\ UNCHANGED reportvars
    /\ UNCHANGED <<edb, depend, dirty, result, artifact, threads, exporter,
                   exportlock, mirrorpath, lastCheck, hist>>

\* the mirror thread m finishes its push (mirror_completion is its callback)
mirror_completion(m) ==
    /\ m \in mirrors
    /\ mirrors' = mirrors \ {m}
    /\ UNCHANGED reportvars
    /\ UNCHANGED <<edb, depend, dirty, result, artifact, threads, exporter,
                   exportlock, mirror, idle_mirror, mirrorpath, lastCheck, hist>>

\* updateindex ends with GLib.idle_add(self.mirror_start)
updateindex ==
    /\ idle_mirror < MaxIdle
    /\ idle_mirror' = idle_mirror + 1
    /\ UNCHANGED reportvars
    /\ UNCHANGED <<edb, depend, dirty, result, artifact, threads, exporter,
                   exportlock, mirrors, mirror, mirrorpath, lastCheck, hist>>

\* the one-second tick: drop the handles of workers that are no longer alive
menu_clock_timeout ==
    /\ mirror' = IF mirror # 0 /\ mirror \notin mirrors THEN 0 ELSE mirror
    /\ IF exporter # 0 /\ ~Alive(exporter)
       THEN /\ exporter' = 0
            /\ threads' = [threads EXCEPT ![exporter] = NoThread]
       ELSE UNCHANGED <<exporter, threads>>
    /\ UNCHANGED reportvars
    /\ UNCHANGED <<edb, depend, dirty, result, artifact, exportlock,
                   mirrors, idle_mirror, mirrorpath, lastCheck, hist>>

\* save_curevent ending with event['dirt'] = False
save_curevent_clears(e) ==
    /\ dirty' = [dirty EXCEPT ![e] = FALSE]
    /\ hist' = NoHist
    /\ UNCHANGED reportvars
    /\ UNCHANGED <<edb, depend, result, artifact, threads, exporter, exportlock,
                   mirrors, mirror, idle_mirror, mirrorpath, lastCheck>>

\* save_curevent on the open event e: saveconfig(), then event['dirt'] = True
save_curevent(e) ==
    /\ dirty' = [dirty EXCEPT ![e] = TRUE]
    /\ hist' = NoHist
    /\ UNCHANGED reportvars
    /\ UNCHANGED <<edb, depend, result, artifact, threads, exporter, exportlock,
                   mirrors, mirror, idle_mirror, mirrorpath, lastCheck>>

\* close_event on the open event e: event['dirt'] = True, then saveconfig()
close_event(e) ==
    /\ dirty' = [dirty EXCEPT ![e] = TRUE]
    /\ hist' = NoHist
    /\ UNCHANGED reportvars
    /\ UNCHANGED <<edb, depend, result, artifact, threads, exporter, exportlock,
                   mirrors, mirror, idle_mirror, mirrorpath, lastCheck>>

Worker(t) ==
    \/ run_data_export_scan(t)
    \/ run_data_export_clear(t)
    \/ run_data_export_load(t)
    \/ run_data_export_write(t)
    \/ run_data_export_end(t)

Next ==
    \/ menu_data_export_activate_cb
    \/ \E t \in Slots : Worker(t)
    \/ mirror_start
    \/ \E m \in Slots : mirror_completion(m)
    \/ updateindex
    \/ menu_clock_timeout
    \/ \E e \in Events : save_curevent(e)
    \/ \E e \in Events : close_event(e)

Spec == Init /\ [][Next]_vars

\* the export pass on its own: requests, the worker, the tick and saves
NextExport ==
    \/ menu_data_export_activate_cb
    \/ \E t \in Slots : Worker(t)
    \/ menu_clock_timeout
    \/ \E e \in Events : save_curevent(e)

SpecExport == InitExport /\ [][NextExport]_vars

\* an export request that finds no handle and starts a worker
export_request_starts ==
    menu_data_export_activate_cb /\ \E t \in Slots : threads'[t].pc = "scan"

\* The tick is a periodic GLib timeout, so it keeps running.  The claim about
\* retrying is about a user who keeps asking for exports, and about thread
\* creation that does not fail for ever: requests that start a worker are
\* taken infinitely often when they are possible infinitely often.
LiveSpec ==
    /\ InitLive /\ [][Next]_vars
    /\ WF_vars(menu_clock_timeout)
    /\ SF_vars(export_request_starts)

(***************************************************************************)
(* Properties of check_depends_dirty (SpecDirty)                           *)
(***************************************************************************)
\* some event reachable from e (e included) had its flag set in flags
ReachDirty(e, flags) == \E r \in Reach(e) : flags[r]

Checked == lastCheck.ev # 0

\* C3: a top-level isDirty(e) returns true exactly when, at the call, e's own
\* flag or the flag of an event reachable from e through depend lists is set,
\* on every dependency graph, cyclic ones included.
C3_ReturnsReachableDirty ==
    Checked => (lastCheck.ret <=> ReachDirty(lastCheck.ev, lastCheck.before))

\* a call on a 2-cycle whose only dirty event lies behind the cycle
C3_Witness ==
    /\ lastCheck.ev = 1 /\ lastCheck.ret
    /\ depend[1] = <<2>> /\ depend[2] = <<1, 3>>
    /\ lastCheck.before = [e \in Events |-> e = 3]
    /\ dirty = [e \in Events |-> TRUE]

\* the events on the chain that ends in e: e, the one event e depends on, the
\* one event that one depends on, ... up to the first event whose flag was
\* set in flags; empty when no such chain ends in e
RECURSIVE ChainBack(_, _, _)
ChainBack(e, flags, seen) ==
    IF flags[e] THEN seen \cup {e}
    ELSE IF Len(depend[e]) = 1 /\ depend[e][1] \in Events \ (seen \cup {e})
    THEN ChainBack(depend[e][1], flags, seen \cup {e})
    ELSE {}

\* C4: a call that finds a dependency dirty leaves the event's own flag set;
\* on a chain E1..En (each E(i+1) depending on E(i) alone) with E1 the only
\* one of them dirty, isDirty(En) returns true and leaves E1..En dirty; and
\* no call ever clears a flag.
C4_PropagatesAlongChain ==
    Checked =>
        /\ lastCheck.ret => dirty[lastCheck.ev]
        /\ \A e \in Events : lastCheck.before[e] => dirty[e]
        /\ LET chain == ChainBack(lastCheck.ev, lastCheck.before, {}) IN
           chain # {} => lastCheck.ret /\ \A e \in chain : dirty[e]

\* isDirty(E3) on the chain E1 <- E2 <- E3 with only E1 dirty
C4_Witness ==
    /\ lastCheck.ev = 3 /\ lastCheck.ret
    /\ depend[1] = <<>> /\ depend[2] = <<1>> /\ depend[3] = <<2>>
    /\ lastCheck.before = [e \in Events |-> e = 1]
    /\ dirty = [e \in Events |-> TRUE]

\* C5: isDirty terminates on every dependency graph: no call nests deeper
\* than the number of ids, so no id is re-entered on a traversal path.
C5_Terminates ==
    ~lastCheck.over

\* a call that walked all the way round a cycle through every event
C5_Witness ==
    /\ Checked /\ ~lastCheck.ret /\ ~lastCheck.over
    /\ \A e \in Events : Reach(e) = Events /\ ~lastCheck.before[e]

UnknownIds == Ids \ Events

\* C6: a dependency id that names no event counts as not dirty and does not
\* end the scan: an event whose depend list names such an id is found dirty
\* exactly when one of the events its list names is (transitively) dirty.
C6_UnknownDependencySkipped ==
    /\ Checked
    /\ Range(depend[lastCheck.ev]) \cap UnknownIds # {}
    /\ ~lastCheck.before[lastCheck.ev]
    => /\ ~lastCheck.over
       /\ lastCheck.ret <=>
             \E dev \in Range(depend[lastCheck.ev]) \cap Events :
                 ReachDirty(dev, lastCheck.before)
       /\ lastCheck.ret => dirty[lastCheck.ev]

\* the unknown id comes first and the dirty dependency after it
C6_Witness ==
    /\ lastCheck.ev = 3 /\ lastCheck.ret /\ dirty[3]
    /\ depend[3] = <<Len(edb) + 1, 2>>
    /\ lastCheck.before = [e \in Events |-> e = 2]

(***************************************************************************)
(* Properties of the export pass and of the worker threads                 *)
(***************************************************************************)
\* C1: at most one export worker is alive, it is the one self.exporter
\* names, and an export request made while a worker is alive changes
\* nothing: no second worker, nothing queued.
C1_SingleFlightExport ==
    /\ [](Cardinality(AliveExporters) <= 1 /\ AliveExporters \subseteq {exporter})
    /\ [][AliveExporters # {} /\ menu_data_export_activate_cb => UNCHANGED vars]_vars

\* a worker in the middle of writing an event's files
C1_Witness ==
    \E t \in Slots : threads[t].pc = "write" /\ exporter = t

\* C2: at most one mirror thread is alive, it is the one self.mirror names,
\* and a mirror_start that finds one running starts nothing; an export
\* worker may be alive at the same time.
C2_SingleMirror ==
    /\ [](Cardinality(mirrors) <= 1 /\ mirrors \subseteq {mirror})
    /\ [][mirrors # {} /\ mirror_start => UNCHANGED <<mirrors, mirror>>]_vars

\* a mirror and an export worker alive together, with a start request queued
C2_Witness ==
    /\ mirrors # {}
    /\ AliveExporters # {}
    /\ idle_mirror > 0

\* what a step of worker t may do to event e
PassFrame(t, e) ==
    /\ e \in Range(threads'[t].dmap) \ Range(threads[t].dmap)
          => ReachDirty(e, dirty)
    /\ e \notin Range(threads[t].dmap)
          => artifact'[e] = artifact[e] /\ (dirty[e] => dirty'[e])
    /\ ~ReachDirty(e, dirty) => dirty'[e] = dirty[e]

\* C7: a pass writes artifacts, and clears the flag, only of events in its
\* dirty set; an event enters the dirty set only when its own flag or that
\* of a transitive dependency is set; and the pass changes no flag of an
\* event that has neither.
C7_OnlyDirtyEventsExported ==
    [][\A t \in Slots :
          threads'[t] # threads[t] /\ Worker(t) => \A e \in Events : PassFrame(t, e)]_vars

\* a finished pass that exported one event and left the other, clean and
\* never exported, alone
C7_Witness ==
    \E t \in Slots :
        /\ threads[t].pc = "ended"
        /\ \E e \in Range(threads[t].dmap) : artifact[e] = "all"
        /\ \E e \in Events \ Range(threads[t].dmap) :
              ~dirty[e] /\ artifact[e] = NoArtifact

\* C8 (as claimed): after a pass has aborted, every event of its dirty set
\* that is flagged for result export and whose files were not all written
\* in that pass is still dirty.
C8_FailedPassKeepsDirty ==
    \A t \in Slots :
        threads[t].pc = "failed" =>
            \A k \in DOMAIN threads[t].dmap :
                k >= threads[t].i /\ result[threads[t].dmap[k]]
                    => dirty[threads[t].dmap[k]]

\* C9: a worker that ends on an exception leaves the lock free, and is
\* followed by a new worker once a further request is made.
C9_RetryAfterFailure ==
    /\ [](\A t \in Slots : threads[t].pc \in {"ended", "failed"} => ~exportlock)
    /\ (\E t \in Slots : threads[t].pc = "failed") ~> (AliveExporters # {})

\* a worker running after an earlier pass had failed between an event's files
C9_Witness ==
    /\ AliveExporters # {}
    /\ \E e \in Events : artifact[e] = "some"

\* C10: once a pass has completed, further passes that complete with no
\* save in between clear no flag and leave every event's artifacts as the
\* first pass left them (hist holds what the first pass left).
C10_ExportIdempotent ==
    hist.n >= 1 => dirty = hist.dirty /\ artifact = hist.artifact

\* two passes completed back to back, the first having exported an event
C10_Witness ==
    /\ hist.n = 2
    /\ \E e \in Events : artifact[e] = "all"

(***************************************************************************)
(* Communique numbering: find_communique                                   *)
(***************************************************************************)
\* MAXREP, the highest communique number tried: 10000 in the source,
\* scaled down so that a map can fill every number up to it
MAXREP == 3
\* distinct report keys (reptype + ', '.join(evlist)) that are looked up
MaxKeys == 4

Digit(d) ==
    CASE d = 0 -> "0" [] d = 1 -> "1" [] d = 2 -> "2" [] d = 3 -> "3"
      [] d = 4 -> "4" [] d = 5 -> "5" [] d = 6 -> "6" [] d = 7 -> "7"
      [] d = 8 -> "8" [] d = 9 -> "9"

\* str(n) of a non-negative int: its decimal digits
RECURSIVE str(_)
str(n) == IF n < 10 THEN Digit(n) ELSE str(n \div 10) \o Digit(n % 10)

\* report keys
Keys == {"result" \o str(k) : k \in 1..MaxKeys}

\* the numbers a loaded commalloc may hold: the strings the scan can
\* produce and one string no str(cnt) equals
Idents == {str(n) : n \in 1..MAXREP} \cup {"01"}

\* the values of a commalloc
Assigned(alloc) == {alloc[c] : c \in DOMAIN alloc}

\* the while loop with the first free number written to lookup without a
\* look at noset
alloc_scan_no_skip(cnt, noset) ==
    [ret |-> str(cnt), write |-> TRUE]

\* the while loop starting over the ceiling test: it gives up one number
\* early
alloc_scan_stops_early(cnt, noset) ==
    LET free == {n \in cnt..(MAXREP - 1) : str(n) \notin noset} IN
    IF free = {} THEN [ret |-> str(MAXREP), write |-> FALSE]
    ELSE [ret |-> str(Min(free)), write |-> TRUE]

\* the while loop of find_communique from cnt on: ret is the value of the
\* local ret when the loop is left, write says whether commalloc[lookup]
\* was written
RECURSIVE alloc_scan(_, _)
alloc_scan(cnt, noset) ==
    LET ret == str(cnt) IN
    IF ret \notin noset THEN [ret |-> ret, write |-> TRUE]
    ELSE IF cnt + 1 > MAXREP THEN [ret |-> ret, write |-> FALSE]
    ELSE alloc_scan(cnt + 1, noset)

\* find_communique that forgets the search for a previous allocation
find_communique_no_search(lookup) ==
    LET r == alloc_scan(1, Assigned(commalloc)) IN
    /\ commalloc' = IF r.write
                    THEN [c \in DOMAIN commalloc \cup {lookup} |->
                             IF c = lookup THEN r.ret ELSE commalloc[c]]
                    ELSE commalloc
    /\ lastComm' = [key |-> lookup, ret |-> r.ret, before |-> commalloc,
                            twice |-> lastComm.key = lookup]
    /\ UNCHANGED <<edb, depend, dirty, result, artifact, threads, exporter,
                   exportlock, mirrors, mirror, idle_mirror, mirrorpath,
                   lastCheck, hist, autovars, meetvars>>

\* find_communique that drops the other entries when it writes a new one
find_communique_rewrites(lookup) ==
    /\ IF lookup \in DOMAIN commalloc
       THEN /\ lastComm' = [key |-> lookup, ret |-> commalloc[lookup],
                            before |-> commalloc,
                            twice |-> lastComm.key = lookup]
            /\ UNCHANGED commalloc
       ELSE LET r == alloc_scan(1, Assigned(commalloc)) IN
            /\ commalloc' = IF r.write THEN [c \in {lookup} |-> r.ret]
                            ELSE commalloc
            /\ lastComm' = [key |-> lookup, ret |-> r.ret, before |-> commalloc,
                            twice |-> lastComm.key = lookup]
    /\ UNCHANGED <<edb, depend, dirty, result, artifact, threads, exporter,
                   exportlock, mirrors, mirror, idle_mirror, mirrorpath,
                   lastCheck, hist, autovars, meetvars>>

\* find_communique(lookup): the for loop finds a previous allocation, or
\* collects every assigned number in noset and the while loop scans
find_communique(lookup) ==
    /\ IF lookup \in DOMAIN commalloc
       THEN /\ lastComm' = [key |-> lookup, ret |-> commalloc[lookup],
                            before |-> commalloc,
                            twice |-> lastComm.key = lookup]
            /\ UNCHANGED commalloc
       ELSE LET r == alloc_scan(1, Assigned(commalloc)) IN
            /\ commalloc' = IF r.write
                            THEN [c \in DOMAIN commalloc \cup {lookup} |->
                                     IF c = lookup THEN r.ret ELSE commalloc[c]]
                            ELSE commalloc
            /\ lastComm' = [key |-> lookup, ret |-> r.ret, before |-> commalloc,
                            twice |-> lastComm.key = lookup]
    /\ UNCHANGED <<edb, depend, dirty, result, artifact, threads, exporter,
                   exportlock, mirrors, mirror, idle_mirror, mirrorpath,
                   lastCheck, hist, autovars, meetvars>>

\* a meet whose commalloc was loaded from its configuration: any keys with
\* any numbers
InitComm ==
    /\ edb = [i \in 1..MeetEvents |-> i]
    /\ depend = [e \in Events |-> <<>>]
    /\ dirty = [e \in Events |-> FALSE]
    /\ result = [e \in Events |-> TRUE]
    /\ artifact = [e \in Events |-> NoArtifact]
    /\ threads = [t \in Slots |-> NoThread]
    /\ exporter = 0
    /\ exportlock = FALSE
    /\ mirrors = {}
    /\ mirror = 0
    /\ idle_mirror = 0
    /\ mirrorpath = FALSE
    /\ lastCheck = NoCheck
    /\ hist = NoHist
    /\ \E K \in SUBSET Keys : commalloc \in [K -> Idents]
    /\ lastComm = NoComm
    /\ InitNoAuto

NextComm ==
    \E lookup \in Keys : find_communique(lookup)

SpecComm == InitComm /\ [][NextComm]_vars

\* ', '.join(evlist)
RECURSIVE join(_)
join(evlist) ==
    IF evlist = <<>> THEN ""
    ELSE IF Len(evlist) = 1 THEN str(evlist[1])
    ELSE str(evlist[1]) \o ", " \o join(Tail(evlist))

\* reporthash = reptype + ', '.join(evlist)
reporthash(reptype, evlist) == reptype \o join(evlist)

\* the report types of the event list's menu
RepTypes == {"startlist", "result"}

\* the event lists a report is asked for: one id, of an event or not, or
\* two events in either order
EvLists ==
    {<<a>> : a \in Ids} \cup {l \in Events \X Events : l[1] # l[2]}

\* eventdb_cb(evlist, reptype) in a meet whose communiques option is set or
\* not: a report with at least one section (one of the events exists) gets
\* its communique number from find_communique
eventdb_cb(evlist, reptype, communiques) ==
    IF (\E k \in 1..Len(evlist) : evlist[k] \in Events) /\ communiques
    THEN find_communique(reporthash(reptype, evlist))
    ELSE UNCHANGED vars

NextReport ==
    \E evlist \in EvLists, reptype \in RepTypes, communiques \in BOOLEAN :
        eventdb_cb(evlist, reptype, communiques)

\* a meet of MeetEvents events with no communique allocated
InitReporting ==
    /\ edb = [i \in 1..MeetEvents |-> i]
    /\ depend = [e \in Events |-> <<>>]
    /\ result = [e \in Events |-> TRUE]
    /\ mirrorpath = FALSE
    /\ dirty = [e \in Events |-> FALSE]
    /\ artifact = [e \in Events |-> NoArtifact]
    /\ threads = [t \in Slots |-> NoThread]
    /\ exporter = 0
    /\ exportlock = FALSE
    /\ mirrors = {}
    /\ mirror = 0
    /\ idle_mirror = 0
    /\ lastCheck = NoCheck
    /\ hist = NoHist
    /\ InitReport

SpecReport == InitReporting /\ [][NextReport]_vars

(***************************************************************************)
(* Properties of find_communique (SpecComm)                                *)
(***************************************************************************)
\* a find_communique call has been made
Allocated == lastComm.key # None

\* the last call was for a key the map did not hold
NewKey == Allocated /\ lastComm.key \notin DOMAIN lastComm.before

\* the numbers up to the ceiling that no key of alloc holds
FreeNumbers(alloc) == {n \in 1..MAXREP : str(n) \notin Assigned(alloc)}

Injective(alloc) ==
    \A c1, c2 \in DOMAIN alloc : c1 # c2 => alloc[c1] # alloc[c2]

\* C11: from any map and for any key, a call of find_communique that
\* repeats the key of the call before it returns what that call returned
\* and leaves commalloc as that call left it.
C11_AllocateIdempotent ==
    [][\A k \in Keys :
          lastComm.key = k /\ find_communique(k)
              => lastComm'.ret = lastComm.ret /\ commalloc' = commalloc]_vars

\* a key has been looked up twice in a row, in a map with another key, and
\* holds the number both calls returned
C11_Witness ==
    /\ lastComm.twice
    /\ lastComm.key \in DOMAIN commalloc
    /\ commalloc[lastComm.key] = lastComm.ret
    /\ Cardinality(DOMAIN commalloc) >= 2

\* C12: a find_communique call on a map in which no two keys share a
\* number leaves such a map, and a key it adds gets a number no key held.
C12_NoSharedIdentifier ==
    [][Injective(commalloc) =>
          /\ Injective(commalloc')
          /\ \A k \in DOMAIN commalloc' \ DOMAIN commalloc :
                commalloc'[k] \notin Assigned(commalloc)]_vars

\* a new key was added to a map without shared numbers that held "1"
C12_Witness ==
    /\ NewKey
    /\ Injective(lastComm.before)
    /\ str(1) \in Assigned(lastComm.before)
    /\ lastComm.key \in DOMAIN commalloc

\* C13: for a key not in the map, when some number up to the ceiling is
\* free, find_communique returns the smallest free number as a string and
\* the map is the old map with the key set to that string.
C13_SmallestFreeNumber ==
    NewKey /\ FreeNumbers(lastComm.before) # {} =>
        LET first == str(Min(FreeNumbers(lastComm.before))) IN
        /\ lastComm.ret = first
        /\ DOMAIN commalloc = DOMAIN lastComm.before \cup {lastComm.key}
        /\ commalloc[lastComm.key] = first
        /\ \A c \in DOMAIN lastComm.before : commalloc[c] = lastComm.before[c]

\* a new key got a number above 1 because the smaller ones were taken
C13_Witness ==
    /\ NewKey
    /\ FreeNumbers(lastComm.before) # {}
    /\ Min(FreeNumbers(lastComm.before)) > 1
    /\ lastComm.ret = str(Min(FreeNumbers(lastComm.before)))

\* C14: when every number from 1 to the ceiling is held by other keys,
\* find_communique for a new key returns None and leaves the map unchanged.
C14_ExhaustedReturnsNone ==
    NewKey /\ FreeNumbers(lastComm.before) = {} =>
        lastComm.ret = None /\ commalloc = lastComm.before

\* C15: a find_communique call removes no key from commalloc and changes
\* the number of none.
C15_AppendOnly ==
    [][\A c \in DOMAIN commalloc :
          c \in DOMAIN commalloc' /\ commalloc'[c] = commalloc[c]]_vars

\* a call added a key to a map that already held entries
C15_Witness ==
    /\ NewKey
    /\ DOMAIN lastComm.before # {}
    /\ DOMAIN commalloc = DOMAIN lastComm.before \cup {lastComm.key}

(***************************************************************************)
(* Autospec resolution: autostart_riders and autoplace_riders              *)
(*                                                                         *)
(* An autospec is held as its groups (autospec.split(';')): a group is     *)
(* [ok, src, places], ok saying that the group has exactly one ':', src    *)
(* the id before it and places the tokens after it, a token <<lo, hi>>     *)
(* being the rank lo (lo = hi) or the range lo-hi.  A result row is        *)
(* <<no, rank>>, rank being [kind, v]: an int v, or a status code.         *)
(***************************************************************************)
\* MAX_AUTORECURSE
MAX_AUTORECURSE == 8
\* events of the meets whose autospecs are enumerated
AutoEvents == 2
\* infocol=None
NoInfocol == -1

IntRank(n) == [kind |-> "int", v |-> n]
CodeRank == [kind |-> "str", v |-> 0]
NoSeed == [kind |-> "none", v |-> 0]

\* the row test without the place set: any integer rank
InPlaceset_any_rank(ri, pl) == ri[2].kind = "int"

\* isinstance(ri[1], int) and ri[1] in placeset
InPlaceset(ri, pl) == ri[2].kind = "int" /\ ri[2].v \in Range(pl)

\* strops.placeset: the ranks of the tokens, in the order written
RECURSIVE placeset(_)
placeset(tokens) ==
    IF tokens = <<>> THEN <<>>
    ELSE LET t == Head(tokens) IN
         [k \in 1..(IF t[2] >= t[1] THEN t[2] - t[1] + 1 ELSE 0) |-> t[1] + k - 1]
             \o placeset(Tail(tokens))

\* the seed carried with a row: ri[infocol] when infocol is given and the
\* row has that column (column 1 is the rank)
Seed(ri, infocol) ==
    IF infocol # NoInfocol /\ infocol < Len(ri)
    THEN (IF infocol = 1 THEN ri[2] ELSE NoSeed)
    ELSE NoSeed

\* evplacemap[p] of autostart_riders: the (rider, seed) of the rows of
\* rank p, in result order
PlaceRows(rows, p, infocol) ==
    LET at == SelectSeq(rows, LAMBDA ri : ri[2].kind = "int" /\ ri[2].v = p) IN
    [k \in 1..Len(at) |-> <<at[k][1], Seed(at[k], infocol)>>]

\* the ranks of a place set in increasing order, each once
RECURSIVE SortedRanks(_)
SortedRanks(S) ==
    IF S = {} THEN <<>> ELSE <<Min(S)>> \o SortedRanks(S \ {Min(S)})

\* the emission loop running over the ranks in numeric order
emit_sorted(rows, pl, infocol) ==
    LET RECURSIVE go(_)
        go(ps) == IF ps = <<>> THEN <<>>
                  ELSE PlaceRows(rows, Head(ps), infocol) \o go(Tail(ps))
    IN go(SortedRanks(Range(pl)))

\* "for p in placeset: if p in evplacemap: for ri in evplacemap[p]:
\* race.addrider(ri[0], ri[1])": the addrider calls, in order
emit(rows, pl, infocol) ==
    LET RECURSIVE go(_)
        go(ps) == IF ps = <<>> THEN <<>>
                  ELSE PlaceRows(rows, Head(ps), infocol) \o go(Tail(ps))
    IN go(pl)

\* the source test without the omnium clause
source_usable_finished_only(evno, racetype) ==
    finished[evno]

\* the source test with the omnium clause for every target
source_usable_any_target(evno, racetype) ==
    finished[evno] \/ evtype[evno] = "omnium"

\* "h.finished or (h.evtype == 'omnium' and race.evtype !=
\* 'classification')" for the handler h of evno
source_usable(evno, racetype) ==
    finished[evno] \/ (evtype[evno] = "omnium" /\ racetype # "classification")

\* the loop test always finding the id absent
in_guard_never(evno, st) == FALSE

\* "evno in self.autorecurse"
in_guard(evno, st) == evno \in st.guard

\* the resolution state: self.autorecurse (guard), and as history the ids
\* in the order added (stack), the largest size the guard had (peak),
\* whether an id was added while on the stack (twice), whether a call
\* returned at the depth test (aborted), and whether calls nested deeper
\* than AutoLimit (over); fail and failat name the event whose handler
\* raises and where ("load": in mkrace or loadconfig, "results": in
\* result_gen), fail = 0 for none, and raised says that the exception is
\* on its way to the caller
StartState(guard) ==
    [guard |-> guard, stack |-> <<>>, peak |-> Cardinality(guard),
     twice |-> FALSE, aborted |-> FALSE, over |-> FALSE,
     fail |-> 0, failat |-> "load", raised |-> FALSE]

\* the resolution state when the handler of event fail raises at failat
StartFaulty(guard, fail, failat) ==
    [StartState(guard) EXCEPT !.fail = fail, !.failat = failat]

\* self.autorecurse.add(evno)
guard_add(st, evno) ==
    [st EXCEPT !.guard = @ \cup {evno},
               !.stack = Append(@, evno),
               !.twice = @ \/ evno \in Range(st.stack),
               !.peak = IF Cardinality(st.guard \cup {evno}) > @
                        THEN Cardinality(st.guard \cup {evno}) ELSE @]

\* remove leaving the id in the set
guard_remove_keeps(st, evno) ==
    [st EXCEPT !.stack = SubSeq(@, 1, Len(@) - 1)]

\* self.autorecurse.remove(evno)
guard_remove(st, evno) ==
    [st EXCEPT !.guard = @ \ {evno},
               !.stack = SubSeq(@, 1, Len(@) - 1)]

\* every nested call adds an id that was not in the guard, so calls nested
\* deeper than the number of ids entered an id twice
AutoLimit == Cardinality(Ids) + 2

RECURSIVE autostart_riders(_, _, _, _, _, _)
RECURSIVE autostart_groups(_, _, _, _, _, _, _)
RECURSIVE loadconfig(_, _, _)

\* h = mkrace(self, e, False); h.loadconfig(): a handler whose event has
\* an autospec fills its own start list from it
loadconfig(evno, st, level) ==
    IF st.fail = evno /\ st.failat = "load"
    THEN [riders |-> <<>>, st |-> [st EXCEPT !.raised = TRUE]]
    ELSE IF auto[evno] = <<>> THEN [riders |-> <<>>, st |-> st]
    ELSE autostart_riders(evtype[evno], auto[evno], 1, TRUE, st, level + 1)

\* the for loop of autostart_riders ending at the first group that is
\* malformed or names no event
autostart_groups_stops(racetype, autospec, i, infocol, riders, st, level) ==
    IF i > Len(autospec) \/ st.over \/ st.raised
    THEN [riders |-> riders, st |-> st]
    ELSE LET egroup == autospec[i]
             evno == egroup.src
         IN
         IF ~egroup.ok \/ evno \notin Events
         THEN [riders |-> riders, st |-> st]
         ELSE IF in_guard(evno, st)
         THEN autostart_groups(racetype, autospec, i + 1, infocol, riders, st, level)
         ELSE LET h == loadconfig(evno, guard_add(st, evno), level)
                  rows == IF source_usable(evno, racetype) THEN results[evno]
                          ELSE <<>>
                  out == emit(rows, placeset(egroup.places), infocol)
              IN IF h.st.raised THEN [riders |-> riders, st |-> h.st]
                 ELSE IF st.fail = evno /\ source_usable(evno, racetype)
                 THEN [riders |-> riders, st |-> [h.st EXCEPT !.raised = TRUE]]
                 ELSE autostart_groups(racetype, autospec, i + 1, infocol,
                                       riders \o out, guard_remove(h.st, evno), level)

\* the for loop of autostart_riders from group i on; riders are the
\* addrider calls made on race so far.  An exception raised by the
\* handler of evno leaves the loop with evno still in the guard: remove()
\* is not in a finally clause.
autostart_groups(racetype, autospec, i, infocol, riders, st, level) ==
    IF i > Len(autospec) \/ st.over \/ st.raised
    THEN [riders |-> riders, st |-> st]
    ELSE LET egroup == autospec[i]
             evno == egroup.src
         IN
         IF ~egroup.ok \/ evno \notin Events \/ in_guard(evno, st)
         THEN autostart_groups(racetype, autospec, i + 1, infocol, riders, st, level)
         ELSE LET h == loadconfig(evno, guard_add(st, evno), level)
                  rows == IF source_usable(evno, racetype) THEN results[evno]
                          ELSE <<>>
                  out == emit(rows, placeset(egroup.places), infocol)
              IN IF h.st.raised THEN [riders |-> riders, st |-> h.st]
                 ELSE IF st.fail = evno /\ source_usable(evno, racetype)
                 THEN [riders |-> riders, st |-> [h.st EXCEPT !.raised = TRUE]]
                 ELSE autostart_groups(racetype, autospec, i + 1, infocol,
                                       riders \o out, guard_remove(h.st, evno), level)

\* autostart_riders(race, autospec, infocol, final) with race.evtype =
\* racetype; final is not read by the function
autostart_riders(racetype, autospec, infocol, final, st, level) ==
    IF level > AutoLimit
    THEN [riders |-> <<>>, st |-> [st EXCEPT !.over = TRUE]]
    ELSE IF Cardinality(st.guard) > MAX_AUTORECURSE
    THEN [riders |-> <<>>, st |-> [st EXCEPT !.aborted = TRUE]]
    ELSE autostart_groups(racetype, autospec, 1, infocol, <<>>, st, level)

\* places after the for loop of autoplace_riders from group i on: a
\* function from the ranks found to the riders of that rank
RECURSIVE autoplace_groups(_, _, _, _, _)
autoplace_groups(autospec, i, final, places, st) ==
    IF i > Len(autospec) \/ st.over \/ st.raised
    THEN [places |-> places, st |-> st]
    ELSE LET egroup == autospec[i]
             evno == egroup.src
         IN
         IF ~egroup.ok \/ in_guard(evno, st)
         THEN autoplace_groups(autospec, i + 1, final, places, st)
         ELSE IF evno \notin Events
         THEN autoplace_groups(autospec, i + 1, final, places,
                               guard_remove(guard_add(st, evno), evno))
         ELSE LET h == loadconfig(evno, guard_add(st, evno), 1)
                  isFinal == standing[evno]
                  pl == placeset(egroup.places)
                  rows == IF ~final \/ isFinal
                          THEN SelectSeq(results[evno], LAMBDA ri : InPlaceset(ri, pl))
                          ELSE <<>>
                  ranks == DOMAIN places \cup {rows[k][2].v : k \in 1..Len(rows)}
                  add(r) == LET at == SelectSeq(rows, LAMBDA ri : ri[2].v = r) IN
                            [k \in 1..Len(at) |-> at[k][1]]
                  places2 == [r \in ranks |->
                                 (IF r \in DOMAIN places THEN places[r] ELSE <<>>)
                                     \o add(r)]
              IN IF h.st.raised THEN [places |-> places, st |-> h.st]
                 ELSE IF st.fail = evno /\ (~final \/ isFinal)
                 THEN [places |-> places, st |-> [h.st EXCEPT !.raised = TRUE]]
                 ELSE autoplace_groups(autospec, i + 1, final, places2,
                                       guard_remove(h.st, evno))

\* the tie groups put out for the ranks in decreasing order
autoplace_riders_descending(autospec, final, st) ==
    LET r == autoplace_groups(autospec, 1, final, <<>>, st)
        order == SortedRanks(DOMAIN r.places)
        n == Len(order)
    IN [places |-> [k \in 1..n |-> r.places[order[n + 1 - k]]], st |-> r.st]

\* autoplace_riders(race, autospec, infocol, final): the riders of each
\* rank found, for the ranks in sorted order (the '-'-joined groups of ret)
autoplace_riders(autospec, final, st) ==
    LET r == autoplace_groups(autospec, 1, final, <<>>, st)
        order == SortedRanks(DOMAIN r.places)
    IN [places |-> [k \in 1..Len(order) |-> r.places[order[k]]], st |-> r.st]

\* a well-formed group, and a group without ':'
Group(src, places) == [ok |-> TRUE, src |-> src, places |-> places]
BadGroup == [ok |-> FALSE, src |-> 0, places |-> <<>>]

\* the place sets "3 1 2" and "1-2"
Places312 == <<<<3, 3>>, <<1, 1>>, <<2, 2>>>>
Places1to2 == <<<<1, 2>>>>

\* results of event e: three riders ranked 1, 2, 3 in result order, or two
\* riders tied on rank 1 followed by a rider with a status code
PlainResult(e) ==
    <<<<10 * e + 1, IntRank(1)>>, <<10 * e + 2, IntRank(2)>>, <<10 * e + 3, IntRank(3)>>>>
TiedResult(e) ==
    <<<<10 * e + 1, IntRank(1)>>, <<10 * e + 2, IntRank(1)>>, <<10 * e + 3, CodeRank>>>>

\* the ids named by a top-level autospec: the first AutoEvents events and
\* the id after them
TopIds == 1..(AutoEvents + 1)

\* the autospecs passed to a top-level resolution: one group, two groups,
\* or a malformed group followed by a group
TopSpecs ==
    {<<Group(s, p)>> : s \in TopIds, p \in {Places312, Places1to2}}
        \cup {<<Group(s1, Places312), Group(s2, Places1to2)>> :
                  s1 \in TopIds, s2 \in TopIds}
        \cup {<<BadGroup, Group(1, Places312)>>}

\* a meet of AutoEvents finished events, each with no autospec or an
\* autospec of one group naming any id (itself, another event, no event)
InitNested ==
    /\ edb = [i \in 1..AutoEvents |-> i]
    /\ auto \in [Events -> {<<>>} \cup {<<Group(s, Places1to2)>> : s \in Ids}]
    /\ evtype = [e \in Events |-> "race"]
    /\ finished = [e \in Events |-> TRUE]
    /\ standing = [e \in Events |-> TRUE]
    /\ results = [e \in Events |-> PlainResult(e)]

\* a meet of AutoEvents events without autospecs, the first two in any
\* state (finished or not, standing 'Result' or not, omnium or not, with
\* or without ties), the others finished races without ties
InitSources ==
    /\ edb = [i \in 1..AutoEvents |-> i]
    /\ auto = [e \in Events |-> <<>>]
    /\ \E ty \in [{1, 2} -> {"race", "omnium"}] :
          evtype = [e \in Events |-> IF e \in {1, 2} THEN ty[e] ELSE "race"]
    /\ \E fi \in [{1, 2} -> BOOLEAN] :
          finished = [e \in Events |-> IF e \in {1, 2} THEN fi[e] ELSE TRUE]
    /\ \E sd \in [{1, 2} -> BOOLEAN] :
          standing = [e \in Events |-> IF e \in {1, 2} THEN sd[e] ELSE TRUE]
    /\ \E tie \in [{1, 2} -> BOOLEAN] :
          results = [e \in Events |-> IF e \in {1, 2} /\ tie[e] THEN TiedResult(e)
                                      ELSE PlainResult(e)]

\* a meet of MAX_AUTORECURSE + 2 finished events, each seeded from the next
InitChain ==
    /\ edb = [i \in 1..(MAX_AUTORECURSE + 2) |-> i]
    /\ auto = [e \in Events |-> IF e < MAX_AUTORECURSE + 2
                                THEN <<Group(e + 1, Places1to2)>> ELSE <<>>]
    /\ evtype = [e \in Events |-> "race"]
    /\ finished = [e \in Events |-> TRUE]
    /\ standing = [e \in Events |-> TRUE]
    /\ results = [e \in Events |-> PlainResult(e)]

InitAuto ==
    /\ InitNested \/ InitSources \/ InitChain
    /\ depend = [e \in Events |-> <<>>]
    /\ dirty = [e \in Events |-> FALSE]
    /\ result = [e \in Events |-> TRUE]
    /\ artifact = [e \in Events |-> NoArtifact]
    /\ threads = [t \in Slots |-> NoThread]
    /\ exporter = 0
    /\ exportlock = FALSE
    /\ mirrors = {}
    /\ mirror = 0
    /\ idle_mirror = 0
    /\ mirrorpath = FALSE
    /\ lastCheck = NoCheck
    /\ hist = NoHist
    /\ commalloc = <<>>
    /\ lastComm = NoComm
    /\ autorecurse = {}
    /\ lastAuto = NoAuto
    /\ InitPlain

\* a behaviour holds one top-level resolution on the control path (and
\* its repetition)
Unresolved == lastAuto.form = None

\* a handler of type racetype loads its configuration and calls
\* meet.autostart_riders(self, autospec, infocol, final)
call_autostart_riders(racetype, autospec, infocol, final) ==
    LET r == autostart_riders(racetype, autospec, infocol, final,
                              StartState(autorecurse), 1) IN
    /\ Unresolved
    /\ autorecurse' = r.st.guard
    /\ lastAuto' = [form |-> "start", racetype |-> racetype, autospec |-> autospec,
                    infocol |-> infocol, final |-> final, riders |-> r.riders,
                    places |-> <<>>, before |-> autorecurse, peak |-> r.st.peak,
                    twice |-> r.st.twice, aborted |-> r.st.aborted,
                    over |-> r.st.over, raised |-> r.st.raised,
                    again |-> FALSE, first |-> <<>>]
    /\ UNCHANGED <<edb, depend, dirty, result, artifact, threads, exporter,
                   exportlock, mirrors, mirror, idle_mirror, mirrorpath,
                   lastCheck, hist, commvars, meetvars,
                   auto, evtype, finished, standing, results>>

\* a handler calls meet.autoplace_riders(self, autospec, final=final)
call_autoplace_riders(autospec, final) ==
    LET r == autoplace_riders(autospec, final, StartState(autorecurse)) IN
    /\ Unresolved
    /\ autorecurse' = r.st.guard
    /\ lastAuto' = [form |-> "place", racetype |-> "race", autospec |-> autospec,
                    infocol |-> NoInfocol, final |-> final, riders |-> <<>>,
                    places |-> r.places, before |-> autorecurse, peak |-> r.st.peak,
                    twice |-> r.st.twice, aborted |-> r.st.aborted,
                    over |-> r.st.over, raised |-> r.st.raised,
                    again |-> FALSE, first |-> <<>>]
    /\ UNCHANGED <<edb, depend, dirty, result, artifact, threads, exporter,
                   exportlock, mirrors, mirror, idle_mirror, mirrorpath,
                   lastCheck, hist, commvars, meetvars,
                   auto, evtype, finished, standing, results>>

\* the same handler is loaded once more, nothing having changed: the
\* resolution of the last call is made again
resolve_again ==
    /\ lastAuto.form # None
    /\ ~lastAuto.again
    /\ ~lastAuto.raised
    /\ LET start == lastAuto.form = "start"
           r1 == autostart_riders(lastAuto.racetype, lastAuto.autospec,
                                  lastAuto.infocol, lastAuto.final,
                                  StartState(autorecurse), 1)
           r2 == autoplace_riders(lastAuto.autospec, lastAuto.final,
                                  StartState(autorecurse))
           st == IF start THEN r1.st ELSE r2.st
       IN /\ autorecurse' = st.guard
          /\ lastAuto' = [lastAuto EXCEPT
                 !.again = TRUE,
                 !.first = IF start THEN lastAuto.riders ELSE lastAuto.places,
                 !.riders = IF start THEN r1.riders ELSE <<>>,
                 !.places = IF start THEN <<>> ELSE r2.places,
                 !.before = autorecurse, !.peak = st.peak, !.twice = st.twice,
                 !.aborted = st.aborted, !.over = st.over, !.raised = st.raised]
    /\ UNCHANGED <<edb, depend, dirty, result, artifact, threads, exporter,
                   exportlock, mirrors, mirror, idle_mirror, mirrorpath,
                   lastCheck, hist, commvars, meetvars,
                   auto, evtype, finished, standing, results>>

NextAuto ==
    \/ \E racetype \in {"race", "classification"}, autospec \in TopSpecs,
          infocol \in {NoInfocol, 1}, final \in BOOLEAN :
          call_autostart_riders(racetype, autospec, infocol, final)
    \/ \E autospec \in TopSpecs, final \in BOOLEAN :
          call_autoplace_riders(autospec, final)

SpecAuto == InitAuto /\ [][NextAuto]_vars

\* resolutions that require final sources, each made a second time
NextTwice ==
    \/ \E racetype \in {"race", "classification"}, autospec \in TopSpecs :
          call_autostart_riders(racetype, autospec, 1, TRUE)
    \/ \E autospec \in TopSpecs : call_autoplace_riders(autospec, TRUE)
    \/ resolve_again

SpecTwice == InitAuto /\ [][NextTwice]_vars

\* call_autostart_riders in which the handler of the source fail raises,
\* in mkrace or loadconfig or in result_gen: the exception leaves
\* autostart_riders and every loadconfig and autostart_riders around it
call_autostart_riders_raising(racetype, autospec, fail, failat) ==
    LET r == autostart_riders(racetype, autospec, NoInfocol, TRUE,
                              StartFaulty(autorecurse, fail, failat), 1) IN
    /\ Unresolved
    /\ r.st.raised
    /\ autorecurse' = r.st.guard
    /\ lastAuto' = [form |-> "start", racetype |-> racetype, autospec |-> autospec,
                    infocol |-> NoInfocol, final |-> TRUE, riders |-> r.riders,
                    places |-> <<>>, before |-> autorecurse, peak |-> r.st.peak,
                    twice |-> r.st.twice, aborted |-> r.st.aborted,
                    over |-> r.st.over, raised |-> TRUE,
                    again |-> FALSE, first |-> <<>>]
    /\ UNCHANGED <<edb, depend, dirty, result, artifact, threads, exporter,
                   exportlock, mirrors, mirror, idle_mirror, mirrorpath,
                   lastCheck, hist, commvars, meetvars,
                   auto, evtype, finished, standing, results>>

\* call_autoplace_riders in which the handler of the source fail raises
call_autoplace_riders_raising(autospec, fail, failat) ==
    LET r == autoplace_riders(autospec, TRUE,
                              StartFaulty(autorecurse, fail, failat)) IN
    /\ Unresolved
    /\ r.st.raised
    /\ autorecurse' = r.st.guard
    /\ lastAuto' = [form |-> "place", racetype |-> "race", autospec |-> autospec,
                    infocol |-> NoInfocol, final |-> TRUE, riders |-> <<>>,
                    places |-> r.places, before |-> autorecurse, peak |-> r.st.peak,
                    twice |-> r.st.twice, aborted |-> r.st.aborted,
                    over |-> r.st.over, raised |-> TRUE,
                    again |-> FALSE, first |-> <<>>]
    /\ UNCHANGED <<edb, depend, dirty, result, artifact, threads, exporter,
                   exportlock, mirrors, mirror, idle_mirror, mirrorpath,
                   lastCheck, hist, commvars, meetvars,
                   auto, evtype, finished, standing, results>>

\* The export worker loads the handler of the dirty event e ("r =
\* mkrace(meet=self, event=e, ui=False); r.loadconfig()"), which resolves
\* the autospec of e: the worker passes the depth test, adds the source of
\* the first group to self.autorecurse and is inside mkrace / loadconfig
\* of that source when the control path runs
worker_load_begin(e) ==
    /\ wload = NoLoad
    /\ auto[e] # <<>>
    /\ Cardinality(autorecurse) <= MAX_AUTORECURSE
    /\ LET egroup == auto[e][1] IN
       /\ egroup.ok
       /\ egroup.src \in Events
       /\ egroup.src \notin autorecurse
       /\ autorecurse' = autorecurse \cup {egroup.src}
       /\ wload' = [ev |-> e, src |-> egroup.src]
    /\ UNCHANGED <<edb, depend, dirty, result, artifact, threads, exporter,
                   exportlock, mirrors, mirror, idle_mirror, mirrorpath,
                   lastCheck, hist, commvars,
                   auto, evtype, finished, standing, results, lastAuto,
                   fieldvars, navvars, renumbered, runvars>>

\* the worker goes on: the handler of the source is loaded, the source is
\* removed from self.autorecurse and the groups after the first resolved
worker_load_end ==
    /\ wload # NoLoad
    /\ LET e == wload.ev
           evno == wload.src
           h == loadconfig(evno, StartState(autorecurse), 1)
           r == autostart_groups(evtype[e], auto[e], 2, 1, <<>>,
                                 guard_remove(h.st, evno), 1)
       IN autorecurse' = r.st.guard
    /\ wload' = NoLoad
    /\ UNCHANGED <<edb, depend, dirty, result, artifact, threads, exporter,
                   exportlock, mirrors, mirror, idle_mirror, mirrorpath,
                   lastCheck, hist, commvars,
                   auto, evtype, finished, standing, results, lastAuto,
                   fieldvars, navvars, renumbered, runvars>>

\* resolutions on the control path, with handlers that raise, while the
\* export worker loads handlers of its own
NextShared ==
    \/ \E racetype \in {"race", "classification"}, autospec \in TopSpecs,
          infocol \in {NoInfocol, 1}, final \in BOOLEAN :
          call_autostart_riders(racetype, autospec, infocol, final)
    \/ \E autospec \in TopSpecs, final \in BOOLEAN :
          call_autoplace_riders(autospec, final)
    \/ \E racetype \in {"race", "classification"}, autospec \in TopSpecs,
          fail \in Events, failat \in {"load", "results"} :
          call_autostart_riders_raising(racetype, autospec, fail, failat)
    \/ \E autospec \in TopSpecs, fail \in Events, failat \in {"load", "results"} :
          call_autoplace_riders_raising(autospec, fail, failat)
    \/ \E e \in Events : worker_load_begin(e)
    \/ worker_load_end

SpecShared == InitAuto /\ [][NextShared]_vars

(***************************************************************************)
(* The navigation links: updatenexprev                                     *)
(***************************************************************************)
\* events in the directory of the navigation specification
NavEvents == 3

\* 'event_' + str(referno).translate(strops.WEBFILE_UTRANS): the
\* translation leaves digits as they are
Page(referno) == "event_" \o str(referno)

\* the reference number with the override read only when the event is no
\* break or session
referno_override_not_on_specials(eh) ==
    IF evtype[eh] \notin {"break", "session"}
    THEN (IF refe[eh] # 0 THEN refe[eh] ELSE eh)
    ELSE 0

\* referno of event eh: its id unless it is a break or a session, and the
\* override when there is one ("overwrite ref no, even on specials");
\* 0 stands for None
referno(eh) ==
    IF refe[eh] # 0 THEN refe[eh]
    ELSE IF evtype[eh] \notin {"break", "session"} THEN eh
    ELSE 0

\* evidx after the loop over self.edb from row i on
RECURSIVE evidx(_, _)
evidx(i, idx) ==
    IF i > Len(edb) THEN idx
    ELSE LET eh == edb[i] IN
         IF (index[eh] \/ result[eh]) /\ referno(eh) # 0
                /\ referno(eh) \notin Range(idx)
         THEN evidx(i + 1, Append(idx, referno(eh)))
         ELSE evidx(i + 1, idx)

\* updatenexprev: both maps are emptied and then filled from evidx
updatenexprev ==
    /\ LET idx == evidx(1, <<>>)
           Pos(r) == CHOOSE k \in 1..Len(idx) : idx[k] = r
       IN /\ nextlinks' = [r \in {idx[k] : k \in 1..(Len(idx) - 1)} |->
                              Page(idx[Pos(r) + 1])]
          /\ prevlinks' = [r \in {idx[k] : k \in 2..Len(idx)} |->
                              Page(idx[Pos(r) - 1])]
    /\ relinked' = TRUE
    /\ UNCHANGED <<edb, depend, dirty, result, artifact, threads, exporter,
                   exportlock, mirrors, mirror, idle_mirror, mirrorpath,
                   lastCheck, hist, commvars, autovars, wload, fieldvars,
                   renumbered, runvars>>

\* a program of NavEvents events of any kind, each flagged or not for the
\* index, all or none flagged for result export, at most one of them with
\* a reference override (the id of an event or an id that names no event)
InitNav ==
    /\ edb = [i \in 1..NavEvents |-> i]
    /\ depend = [e \in Events |-> <<>>]
    /\ dirty = [e \in Events |-> FALSE]
    /\ \E b \in BOOLEAN : result = [e \in Events |-> b]
    /\ artifact = [e \in Events |-> NoArtifact]
    /\ threads = [t \in Slots |-> NoThread]
    /\ exporter = 0
    /\ exportlock = FALSE
    /\ mirrors = {}
    /\ mirror = 0
    /\ idle_mirror = 0
    /\ mirrorpath = FALSE
    /\ lastCheck = NoCheck
    /\ hist = NoHist
    /\ commalloc = <<>>
    /\ lastComm = NoComm
    /\ auto = [e \in Events |-> <<>>]
    /\ evtype \in [Events -> {"race", "break", "session"}]
    /\ finished = [e \in Events |-> TRUE]
    /\ standing = [e \in Events |-> TRUE]
    /\ results = [e \in Events |-> <<>>]
    /\ autorecurse = {}
    /\ lastAuto = NoAuto
    /\ wload = NoLoad
    /\ index \in [Events -> BOOLEAN]
    /\ program = <<>>
    /\ \E ov \in Events, r \in {0} \cup Ids :
          refe = [e \in Events |-> IF e = ov THEN r ELSE 0]
    /\ nextlinks = <<>>
    /\ prevlinks = <<>>
    /\ relinked = FALSE
    /\ evov = <<>>
    /\ renumbered = 0
    /\ InitRun

NextNav == updatenexprev

SpecNav == InitNav /\ [][NextNav]_vars

(***************************************************************************)
(* Renumbering an event: event_popup_edit_cb and eventno_change            *)
(*                                                                         *)
(* In this part an event id is the sequence of its numbers between dots:   *)
(* <<5>> is '5' and <<5, 1>> is '5.1'.  The directory is held as the       *)
(* record of the variables a renumbering reads and writes.                 *)
(***************************************************************************)
\* events in the directory of the renumbering specification
RenumEvents == 3
\* renumberings in one behaviour
MaxRenumber == 2
\* no reference override, no override number
NoId == <<>>

\* self.edb.change_evno(oldevno, newevno): the row of oldevno gets the id
\* newevno
change_evno(rows, oldevno, newevno) ==
    [i \in 1..Len(rows) |-> IF rows[i] = oldevno THEN newevno ELSE rows[i]]

\* the fields f of the events, after the id oldevno became newevno
Rekey(f, oldevno, newevno) ==
    [e \in (DOMAIN f \ {oldevno}) \cup {newevno} |->
        IF e = newevno THEN f[oldevno] ELSE f[e]]

\* sub_depend / update_depend: every oldevno of a depend list replaced
update_depend(deps, oldevno, newevno) ==
    [k \in 1..Len(deps) |-> IF deps[k] = oldevno THEN newevno ELSE deps[k]]

\* sub_autospec / update_autospec: the source of every group over oldevno
\* replaced
update_autospec(autospec, oldevno, newevno) ==
    [k \in 1..Len(autospec) |->
        IF autospec[k].ok /\ autospec[k].src = oldevno
        THEN [autospec[k] EXCEPT !.src = newevno] ELSE autospec[k]]

\* the directory as a record
Directory ==
    [edb |-> edb, depend |-> depend, auto |-> auto, refe |-> refe,
     index |-> index, result |-> result, program |-> program, evov |-> evov]

\* eventno_change with the call of update_depend left out
eventno_change_depend_kept(d, oldevno, newevno, backup) ==
    LET ids == (DOMAIN d.depend \ {oldevno}) \cup {newevno}
        aut == Rekey(d.auto, oldevno, newevno)
        ref == Rekey(d.refe, oldevno, newevno)
        ind == Rekey(d.index, oldevno, newevno)
        res == Rekey(d.result, oldevno, newevno)
        prg == Rekey(d.program, oldevno, newevno)
        ov == Rekey(d.evov, oldevno, newevno)
    IN [edb |-> change_evno(d.edb, oldevno, newevno),
        depend |-> Rekey(d.depend, oldevno, newevno),
        auto |-> [e \in ids |-> IF e # newevno
                                THEN update_autospec(aut[e], oldevno, newevno)
                                ELSE aut[e]],
        refe |-> [e \in ids |-> IF e # newevno /\ ref[e] = oldevno
                                THEN newevno ELSE ref[e]],
        index |-> [e \in ids |-> IF backup /\ e = newevno THEN FALSE ELSE ind[e]],
        result |-> [e \in ids |-> IF backup /\ e = newevno THEN FALSE ELSE res[e]],
        program |-> [e \in ids |-> IF backup /\ e = newevno THEN FALSE ELSE prg[e]],
        evov |-> [e \in ids |-> IF backup /\ e = newevno THEN oldevno ELSE ov[e]]]

\* eventno_change(oldevno, newevno, backup) on the directory d: the id is
\* changed, every event but the renumbered one has its autospec, depend
\* list and reference updated, and a backup loses its index, result and
\* program flags and gets the old id as override number
eventno_change(d, oldevno, newevno, backup) ==
    LET ids == (DOMAIN d.depend \ {oldevno}) \cup {newevno}
        dep == Rekey(d.depend, oldevno, newevno)
        aut == Rekey(d.auto, oldevno, newevno)
        ref == Rekey(d.refe, oldevno, newevno)
        ind == Rekey(d.index, oldevno, newevno)
        res == Rekey(d.result, oldevno, newevno)
        prg == Rekey(d.program, oldevno, newevno)
        ov == Rekey(d.evov, oldevno, newevno)
    IN [edb |-> change_evno(d.edb, oldevno, newevno),
        depend |-> [e \in ids |-> IF e # newevno
                                  THEN update_depend(dep[e], oldevno, newevno)
                                  ELSE dep[e]],
        auto |-> [e \in ids |-> IF e # newevno
                                THEN update_autospec(aut[e], oldevno, newevno)
                                ELSE aut[e]],
        refe |-> [e \in ids |-> IF e # newevno /\ ref[e] = oldevno
                                THEN newevno ELSE ref[e]],
        index |-> [e \in ids |-> IF backup /\ e = newevno THEN FALSE ELSE ind[e]],
        result |-> [e \in ids |-> IF backup /\ e = newevno THEN FALSE ELSE res[e]],
        program |-> [e \in ids |-> IF backup /\ e = newevno THEN FALSE ELSE prg[e]],
        evov |-> [e \in ids |-> IF backup /\ e = newevno THEN oldevno ELSE ov[e]]]

\* newevno.rsplit('.', 1)[0]
baseno(newevno) ==
    IF Len(newevno) > 1 THEN SubSeq(newevno, 1, Len(newevno) - 1) ELSE newevno

\* the backup id made without the test "tmpevno in self.edb"
tmpevno_no_search(rows, base, count) == Append(base, count + 1)

\* "while tmpevno in self.edb: count += 1; tmpevno = '%s.%d' % (baseno,
\* count)" entered with count: the first id base.N that no event holds
RECURSIVE tmpevno(_, _, _)
tmpevno(rows, base, count) ==
    IF Append(base, count + 1) \in Range(rows)
    THEN tmpevno(rows, base, count + 1)
    ELSE Append(base, count + 1)

\* the ids a user may enter for an event
NewIds ==
    {<<b>> : b \in 1..(Len(edb) + 1)} \cup {<<b, 1>> : b \in 1..Len(edb)}

\* the edit callback renumbering without moving the holder of the new id
\* out of the way
event_popup_edit_cb_no_backup(oldevno, newevno) ==
    /\ renumbered < MaxRenumber
    /\ oldevno \in Events
    /\ newevno # oldevno
    /\ LET d == eventno_change(Directory, oldevno, newevno, FALSE) IN
       /\ edb' = d.edb
       /\ depend' = d.depend
       /\ auto' = d.auto
       /\ refe' = d.refe
       /\ index' = d.index
       /\ program' = d.program
       /\ result' = d.result
       /\ evov' = d.evov
    /\ renumbered' = renumbered + 1
    /\ UNCHANGED <<dirty, artifact, threads, exporter, exportlock, mirrors,
                   mirror, idle_mirror, mirrorpath, lastCheck, hist, commvars,
                   evtype, finished, standing, results, autorecurse, lastAuto,
                   wload, navvars, runvars>>

\* event_popup_edit_cb when the dialog returns a changed event number: an
\* event that holds newevno is first moved to a backup id, then oldevno is
\* changed to newevno
event_popup_edit_cb(oldevno, newevno) ==
    /\ renumbered < MaxRenumber
    /\ oldevno \in Events
    /\ newevno # oldevno
    /\ LET d1 == IF newevno \in Events
                 THEN eventno_change(Directory, newevno,
                                     tmpevno(edb, baseno(newevno), 0), TRUE)
                 ELSE Directory
           d == eventno_change(d1, oldevno, newevno, FALSE)
       IN /\ edb' = d.edb
          /\ depend' = d.depend
          /\ auto' = d.auto
          /\ refe' = d.refe
          /\ index' = d.index
          /\ program' = d.program
          /\ result' = d.result
          /\ evov' = d.evov
    /\ renumbered' = renumbered + 1
    /\ UNCHANGED <<dirty, artifact, threads, exporter, exportlock, mirrors,
                   mirror, idle_mirror, mirrorpath, lastCheck, hist, commvars,
                   evtype, finished, standing, results, autorecurse, lastAuto,
                   wload, navvars, runvars>>

\* a program of the events 1..RenumEvents, all in the index and flagged
\* for result export; every event depends on event 1 and on the event
\* before it and is seeded from event 1, and the last event has event 1
\* as its reference
InitRenumber ==
    /\ edb = [i \in 1..RenumEvents |-> <<i>>]
    /\ depend = [e \in Events |-> <<<<1>>, <<IF e[1] > 1 THEN e[1] - 1 ELSE 1>>>>]
    /\ dirty = <<>>
    /\ result = [e \in Events |-> TRUE]
    /\ artifact = <<>>
    /\ threads = [t \in Slots |-> NoThread]
    /\ exporter = 0
    /\ exportlock = FALSE
    /\ mirrors = {}
    /\ mirror = 0
    /\ idle_mirror = 0
    /\ mirrorpath = FALSE
    /\ lastCheck = NoCheck
    /\ hist = NoHist
    /\ commalloc = <<>>
    /\ lastComm = NoComm
    /\ auto = [e \in Events |-> <<Group(<<1>>, Places1to2)>>]
    /\ evtype = <<>>
    /\ finished = <<>>
    /\ standing = <<>>
    /\ results = <<>>
    /\ autorecurse = {}
    /\ lastAuto = NoAuto
    /\ wload = NoLoad
    /\ index = [e \in Events |-> TRUE]
    /\ program = [e \in Events |-> TRUE]
    /\ refe = [e \in Events |-> IF e = <<RenumEvents>> THEN <<1>> ELSE NoId]
    /\ nextlinks = <<>>
    /\ prevlinks = <<>>
    /\ relinked = FALSE
    /\ evov = [e \in Events |-> NoId]
    /\ renumbered = 0
    /\ InitRun

NextRenumber ==
    \E oldevno \in Events, newevno \in NewIds : event_popup_edit_cb(oldevno, newevno)

SpecRenumber == InitRenumber /\ [][NextRenumber]_vars

(***************************************************************************)
(* Properties of autospec resolution (SpecAuto)                            *)
(***************************************************************************)
\* a top-level resolution has been made, from an empty recursion guard
Resolved == IF lastAuto.form = None THEN FALSE ELSE lastAuto.before = {}

\* the rider numbers the last resolution put out, in order (starter list)
StartNos == [k \in 1..Len(lastAuto.riders) |-> lastAuto.riders[k][1]]

\* the rider numbers the last resolution put out, in either form
LastNos ==
    IF lastAuto.form = "start" THEN Range(StartNos)
    ELSE UNION {Range(lastAuto.places[k]) : k \in 1..Len(lastAuto.places)}

\* the last resolution took riders from the results of event s
FromSource(s) == \E no \in LastNos : no \div 10 = s

\* the well-formed groups of the last resolution that name an event
SourceGroups ==
    {i \in 1..Len(lastAuto.autospec) :
        lastAuto.autospec[i].ok /\ lastAuto.autospec[i].src \in Events}

\* C16: every resolution, in either form and over stored autospecs that
\* name themselves or each other in cycles, returns: the calls do not nest
\* without end, no id is added to the guard while it is on the stack, and
\* the guard is left as it was found.
C16_CyclesTerminate ==
    lastAuto.form # None =>
        /\ ~lastAuto.over
        /\ ~lastAuto.twice
        /\ autorecurse = lastAuto.before

\* events 1 and 2 are seeded from each other and a resolution from event 1
\* returned riders
C16_Witness ==
    /\ Resolved
    /\ auto[1] # <<>> /\ auto[1][1].src = 2
    /\ auto[2] # <<>> /\ auto[2][1].src = 1
    /\ lastAuto.autospec[1].ok /\ lastAuto.autospec[1].src = 1
    /\ FromSource(1)
    /\ lastAuto.peak >= 2

\* C17: the recursion guard never holds more than MAX_AUTORECURSE (8)
\* source ids during a resolution.
C17_DepthBoundedAt8 ==
    lastAuto.form # None => lastAuto.peak <= MAX_AUTORECURSE

\* the rider numbers a group puts on the starter list of a target of type
\* racetype, written out for the place sets and results of the meets:
\* "3 1 2" over ranks 1, 2, 3 gives the third, first and second rider,
\* over two riders tied on rank 1 both in result order; "1-2" gives the
\* riders of ranks 1 and 2
ExpectedNos(g, racetype) ==
    IF ~g.ok THEN <<>>
    ELSE IF g.src \notin Events THEN <<>>
    ELSE IF ~(finished[g.src]
                \/ (evtype[g.src] = "omnium" /\ racetype # "classification"))
    THEN <<>>
    ELSE IF g.places = Places312 /\ results[g.src] = PlainResult(g.src)
    THEN <<10 * g.src + 3, 10 * g.src + 1, 10 * g.src + 2>>
    ELSE <<10 * g.src + 1, 10 * g.src + 2>>

\* C18: the starter list holds, group after group from left to right, the
\* riders of each group in the literal order of its place set, riders tied
\* on a rank together in result order.
C18_PlacesetOrder ==
    Resolved /\ lastAuto.form = "start" =>
        LET spec == lastAuto.autospec
            first == ExpectedNos(spec[1], lastAuto.racetype)
        IN StartNos = IF Len(spec) = 1 THEN first
                      ELSE first \o ExpectedNos(spec[2], lastAuto.racetype)

\* "3 1 2" over event 1 followed by "1-2" over event 2 put out 13, 11, 12,
\* 21, 22
C18_Witness ==
    /\ Resolved
    /\ lastAuto.form = "start"
    /\ lastAuto.autospec = <<Group(1, Places312), Group(2, Places1to2)>>
    /\ StartNos = <<13, 11, 12, 21, 22>>

\* C19 as claimed: with final set, in either form, riders are taken from a
\* source exactly when it is final or it is an omnium and the target is no
\* classification.
C19_RequireFinalBothForms ==
    Resolved /\ lastAuto.final =>
        \A i \in SourceGroups :
            LET s == lastAuto.autospec[i].src
                isfinal == IF lastAuto.form = "start" THEN finished[s]
                           ELSE standing[s]
            IN FromSource(s) <=>
                   (isfinal \/ (evtype[s] = "omnium"
                                   /\ lastAuto.racetype # "classification"))

\* C19 amended: with final set, the starter-list form takes riders from a
\* source exactly when it is finished or it is an omnium and the target is
\* no classification; the place form takes riders from a source exactly
\* when its standing is 'Result', whatever its type.
C19_RequireFinal ==
    Resolved /\ lastAuto.final =>
        \A i \in SourceGroups :
            LET s == lastAuto.autospec[i].src IN
            FromSource(s) <=>
                IF lastAuto.form = "start"
                THEN finished[s] \/ (evtype[s] = "omnium"
                                        /\ lastAuto.racetype # "classification")
                ELSE standing[s]

\* with final set, the starter list of a race took riders from an omnium
\* that is not finished
C19_Witness ==
    /\ Resolved
    /\ lastAuto.final
    /\ lastAuto.form = "start"
    /\ lastAuto.racetype = "race"
    /\ \E i \in SourceGroups :
          LET s == lastAuto.autospec[i].src IN
          ~finished[s] /\ evtype[s] = "omnium" /\ FromSource(s)

\* C20: with final not set, in either form, riders are taken from every
\* source named by a well-formed group, final or not.
C20_NotFinalUsed ==
    Resolved /\ ~lastAuto.final =>
        \A i \in SourceGroups : FromSource(lastAuto.autospec[i].src)

\* the groups of an autospec that are well formed and name an event
Cleaned(autospec) ==
    SelectSeq(autospec, LAMBDA g : g.ok /\ g.src \in Events)

\* C21: a group that is malformed or names no event is skipped and the
\* groups after it are still resolved: the output of a resolution, in
\* either form, is the output of the resolution of the same autospec
\* without those groups.
C21_BadGroupsSkipped ==
    Resolved =>
        IF lastAuto.form = "start"
        THEN lastAuto.riders =
                 autostart_riders(lastAuto.racetype, Cleaned(lastAuto.autospec),
                                  lastAuto.infocol, lastAuto.final,
                                  StartState({}), 1).riders
        ELSE lastAuto.places =
                 autoplace_riders(Cleaned(lastAuto.autospec), lastAuto.final,
                                  StartState({})).places

\* a malformed group followed by a group over event 1 put the riders of
\* event 1 on the starter list
C21_Witness ==
    /\ Resolved
    /\ lastAuto.form = "start"
    /\ lastAuto.autospec = <<BadGroup, Group(1, Places312)>>
    /\ StartNos = <<13, 11, 12>>

\* the rank of rider no in the results of its event (rider numbers are
\* 10 * event + k)
RankOf(no) ==
    LET rows == results[no \div 10]
        k == CHOOSE k \in 1..Len(rows) : rows[k][1] = no
    IN rows[k][2]

\* rank v is named by one of the tokens
InTokens(v, tokens) ==
    \E k \in 1..Len(tokens) : tokens[k][1] <= v /\ v <= tokens[k][2]

\* C22: every rider a resolution puts out, on the starter list or in the
\* place map, has in the results of its source an integer rank that the
\* place set of a group over that source names; riders with a status code
\* and riders ranked outside the place set are not put out.
C22_OnlyIntegerRanksInPlaceset ==
    Resolved =>
        \A no \in LastNos :
            \E i \in SourceGroups :
                /\ lastAuto.autospec[i].src = no \div 10
                /\ RankOf(no).kind = "int"
                /\ InTokens(RankOf(no).v, lastAuto.autospec[i].places)

\* "3 1 2" over an event with two riders on rank 1 and a rider with a
\* status code, followed by "1-2" over an event with ranks 1, 2 and 3: the
\* place map holds the riders of ranks 1 and 2 only
C22_Witness ==
    /\ Resolved
    /\ lastAuto.form = "place"
    /\ lastAuto.autospec = <<Group(1, Places312), Group(2, Places1to2)>>
    /\ results[1] = TiedResult(1)
    /\ results[2] = PlainResult(2)
    /\ LastNos = {11, 12, 21, 22}

\* C23: after a top-level resolution that started from an empty guard has
\* returned, normally or with an exception raised by a source handler, and
\* with no resolution under way in the export worker, the guard is empty.
C23_GuardScopedToResolution ==
    (Resolved /\ wload = NoLoad) => autorecurse = {}

\* what the last resolution put out
LastOutput == IF lastAuto.form = "start" THEN lastAuto.riders ELSE lastAuto.places

\* what the last resolution puts out when it runs with nothing else in
\* the guard
AloneOutput ==
    IF lastAuto.form = "start"
    THEN autostart_riders(lastAuto.racetype, lastAuto.autospec, lastAuto.infocol,
                          lastAuto.final, StartState({}), 1).riders
    ELSE autoplace_riders(lastAuto.autospec, lastAuto.final, StartState({})).places

\* C24: a resolution on the control path that returns while the export
\* worker is inside a resolution of its own puts out what it puts out when
\* it runs alone.
C24_NoInterference ==
    (lastAuto.form # None /\ ~lastAuto.raised) => LastOutput = AloneOutput

\* C25: a resolution made twice in succession, the source results
\* unchanged, puts out the same riders in the same order both times.
C25_Deterministic ==
    (lastAuto.form # None /\ lastAuto.again) => lastAuto.first = LastOutput

\* a starter list of five riders from two sources was resolved twice
C25_Witness ==
    /\ Resolved
    /\ lastAuto.again
    /\ lastAuto.form = "start"
    /\ lastAuto.first = LastOutput
    /\ StartNos = <<13, 11, 12, 21, 22>>

(***************************************************************************)
(* Properties of the dirty flags and of the mirror requests (Spec)         *)
(***************************************************************************)
\* C26: a dirty flag that is set is cleared by no step but the clear step
\* of an export worker: closing and saving an event, the scan with its
\* check_depends_dirty calls and every other step leave a set flag set.
C26_OnlyWorkerClears ==
    [][\A e \in Events :
          (dirty[e] /\ ~dirty'[e]) => \E t \in Slots : run_data_export_clear(t)]_vars

\* a worker has cleared the flag of the event it is about to load while
\* the flag of another event is set
C26_Witness ==
    \E t \in Slots :
        /\ threads[t].pc = "load"
        /\ ~dirty[threads[t].dmap[threads[t].i]]
        /\ \E e \in Events : dirty[e]

\* worker t is past the last event of its pass
PassFinishing(t) ==
    threads[t].pc = "clear" /\ threads[t].i > Len(threads[t].dmap)

\* C27: the step of a worker that finishes its pass queues one mirror_start
\* when a mirror destination is configured and none when it is not, no
\* other step of a worker queues one, and with no destination configured
\* no mirror thread is ever made.
C27_OneMirrorRequestPerPass ==
    /\ [](~mirrorpath => (mirror = 0 /\ mirrors = {}))
    /\ [][\A t \in Slots :
             Worker(t) =>
                 idle_mirror' = idle_mirror
                     + (IF PassFinishing(t) /\ mirrorpath THEN 1 ELSE 0)]_vars

\* a pass has ended with a destination configured, its request is queued
\* and no mirror has been started yet
C27_Witness ==
    /\ mirrorpath
    /\ \E t \in Slots : threads[t].pc = "ended"
    /\ idle_mirror = 1
    /\ mirror = 0

(***************************************************************************)
(* Properties of the navigation links (SpecNav)                            *)
(***************************************************************************)
\* the reference number of event e as the claim gives it (0: none)
RefNo(e) ==
    IF refe[e] # 0 THEN refe[e]
    ELSE IF evtype[e] \in {"break", "session"} THEN 0 ELSE e

\* the rows of the program that contribute a reference number
RefRows ==
    {i \in 1..Len(edb) : (index[edb[i]] \/ result[edb[i]]) /\ RefNo(edb[i]) # 0}

\* the reference numbers, and the first row of each
RefNos == {RefNo(edb[i]) : i \in RefRows}
FirstRow(r) == Min({i \in RefRows : RefNo(edb[i]) = r})

\* s follows r in the order of first rows, with no reference number between
Follows(r, s) ==
    /\ FirstRow(r) < FirstRow(s)
    /\ \A u \in RefNos : ~(FirstRow(r) < FirstRow(u) /\ FirstRow(u) < FirstRow(s))

\* C28: after updatenexprev the next map holds, for every reference number
\* but the last, the page of the reference number that follows it, the
\* prev map, for every reference number but the first, the page of the one
\* before it, and neither holds anything else.
C28_LinksBetweenConsecutive ==
    relinked =>
        /\ DOMAIN nextlinks = {r \in RefNos : \E s \in RefNos : Follows(r, s)}
        /\ DOMAIN prevlinks = {s \in RefNos : \E r \in RefNos : Follows(r, s)}
        /\ \A r \in RefNos, s \in RefNos :
              Follows(r, s) => /\ nextlinks[r] = "event_" \o str(s)
                               /\ prevlinks[s] = "event_" \o str(r)

\* a race, a break whose override is 4 and a race, all in the index: the
\* links run from 1 to 4 to 3 and back
C28_Witness ==
    /\ relinked
    /\ evtype = <<"race", "break", "race">>
    /\ refe = <<0, 4, 0>>
    /\ index = <<TRUE, TRUE, TRUE>>
    /\ nextlinks = (1 :> "event_4" @@ 4 :> "event_3")
    /\ prevlinks = (4 :> "event_1" @@ 3 :> "event_4")

(***************************************************************************)
(* Properties of renumbering (SpecRenumber)                                *)
(***************************************************************************)
\* C29: between renumberings no two rows of the directory hold the same
\* id and the directory has the rows it had: renumbering to an id that an
\* event holds moves that event aside, it neither merges nor drops a row.
C29_IdsUnique ==
    /\ Len(edb) = RenumEvents
    /\ \A i \in 1..Len(edb), j \in 1..Len(edb) : edb[i] = edb[j] => i = j

\* event 1 was renumbered to 2: the first row holds 2 and the second row,
\* which held 2, holds 2.1
C29_Witness ==
    /\ renumbered = 1
    /\ edb[1] = <<2>>
    /\ edb[2] = <<2, 1>>

(***************************************************************************)
(* Properties of the report key (SpecReport)                               *)
(***************************************************************************)
\* C30: two reports of the same type over the same set of events have the
\* same communique number, whatever the order of the events in the lists
\* they were asked with.
C30_KeyIgnoresListingOrder ==
    \A reptype \in RepTypes, l1 \in EvLists, l2 \in EvLists :
        (/\ Range(l1) = Range(l2)
         /\ reporthash(reptype, l1) \in DOMAIN commalloc
         /\ reporthash(reptype, l2) \in DOMAIN commalloc)
            => commalloc[reporthash(reptype, l1)] = commalloc[reporthash(reptype, l2)]

(***************************************************************************)
(* Shutdown: meet_destroy_handler calls shutdown() on the control path and *)
(* then leaves the main loop.  Thread.join() blocks the control path, so   *)
(* shutdown() is one step up to each join and the workers run in between.  *)
(***************************************************************************)
\* the thread object in slot t was never started: Thread.start() raised
NeverStarted(t) == threads[t].pc = "failed" /\ threads[t].i = 0

\* the main loop dispatches callbacks: shutdown() has not been called, or
\* it raised and meet_destroy_handler never reached Gtk.main_quit()
Looping == shut.at \in {"no", "raised"}

\* shutdown() up to "if self.exporter is not None"
shutdown ==
    /\ shut.at = "no"
    /\ shut' = [shut EXCEPT !.at = "exporter"]
    /\ UNCHANGED <<edb, depend, dirty, result, artifact, threads, exporter,
                   exportlock, mirrors, mirror, idle_mirror, mirrorpath,
                   lastCheck, hist, commvars, autovars, wload, fieldvars,
                   navvars, renumbered, savevars, delayvars>>

\* self.exporter.join(timeout) in place of self.exporter.join(): the call
\* returns while the worker is alive
shutdown_join_exporter_timeout ==
    /\ shut.at = "exporter"
    /\ IF exporter = 0
       THEN /\ shut' = [shut EXCEPT !.at = "mirror"]
            /\ UNCHANGED <<exporter, threads>>
       ELSE /\ exporter' = 0
            /\ threads' = IF Alive(exporter) THEN threads
                          ELSE [threads EXCEPT ![exporter] = NoThread]
            /\ shut' = [at |-> "mirror", joined |-> shut.joined \cup {"exporter"}]
    /\ UNCHANGED <<edb, depend, dirty, result, artifact,
                   exportlock, mirrors, mirror, idle_mirror, mirrorpath,
                   lastCheck, hist, commvars, autovars, wload, fieldvars,
                   navvars, renumbered, savevars, delayvars>>

\* "if self.exporter is not None: self.exporter.join(); self.exporter =
\* None".  join() returns when the worker is no longer alive, and raises
\* RuntimeError on a thread object that was never started.
shutdown_join_exporter ==
    /\ shut.at = "exporter"
    /\ IF exporter = 0
       THEN /\ shut' = [shut EXCEPT !.at = "mirror"]
            /\ UNCHANGED <<exporter, threads>>
       ELSE IF NeverStarted(exporter)
       THEN /\ shut' = [shut EXCEPT !.at = "raised"]
            /\ UNCHANGED <<exporter, threads>>
       ELSE /\ ~Alive(exporter)
            /\ exporter' = 0
            /\ threads' = [threads EXCEPT ![exporter] = NoThread]
            /\ shut' = [at |-> "mirror", joined |-> shut.joined \cup {"exporter"}]
    /\ UNCHANGED <<edb, depend, dirty, result, artifact,
                   exportlock, mirrors, mirror, idle_mirror, mirrorpath,
                   lastCheck, hist, commvars, autovars, wload, fieldvars,
                   navvars, renumbered, savevars, delayvars>>

\* "if self.mirror is not None: self.mirror.join(); self.mirror = None",
\* and the return of shutdown()
shutdown_join_mirror ==
    /\ shut.at = "mirror"
    /\ IF mirror = 0
       THEN /\ shut' = [shut EXCEPT !.at = "returned"]
            /\ UNCHANGED mirror
       ELSE /\ mirror \notin mirrors
            /\ mirror' = 0
            /\ shut' = [at |-> "returned", joined |-> shut.joined \cup {"mirror"}]
    /\ UNCHANGED <<edb, depend, dirty, result, artifact, threads, exporter,
                   exportlock, mirrors, idle_mirror, mirrorpath,
                   lastCheck, hist, commvars, autovars, wload, fieldvars,
                   navvars, renumbered, savevars, delayvars>>

\* a meet with a mirror destination, every event flagged for result export
InitShutdown ==
    /\ edb = [i \in 1..MeetEvents |-> i]
    /\ depend = [e \in Events |-> IF e = 1 THEN <<>> ELSE <<e - 1>>]
    /\ result = [e \in Events |-> TRUE]
    /\ mirrorpath = TRUE
    /\ InitMeet

\* the menu is there until the window is destroyed; the tick and the idle
\* queue run while the main loop does; workers run whatever the control
\* path does
NextShutdown ==
    \/ shut.at = "no" /\ menu_data_export_activate_cb
    \/ Looping /\ mirror_start
    \/ Looping /\ menu_clock_timeout
    \/ \E t \in Slots : Worker(t)
    \/ \E m \in Slots : mirror_completion(m)
    \/ shutdown
    \/ shutdown_join_exporter
    \/ shutdown_join_mirror

SpecShutdown == InitShutdown /\ [][NextShutdown]_vars

(***************************************************************************)
(* Properties of shutdown (SpecShutdown)                                   *)
(***************************************************************************)
\* a step sets a worker handle that named a thread object to None
HandleCleared ==
    \/ exporter # 0 /\ exporter' = 0
    \/ mirror # 0 /\ mirror' = 0

\* when shutdown() has returned no worker is alive and both handles are
\* None
ShutdownJoinsAll ==
    shut.at = "returned" =>
        /\ exporter = 0
        /\ mirror = 0
        /\ AliveExporters = {}
        /\ mirrors = {}

\* before shutdown() the callbacks of the control path that deal with the
\* workers can run whatever the workers do
NeverBlocks ==
    shut.at = "no" =>
        /\ ENABLED menu_clock_timeout
        /\ ENABLED menu_data_export_activate_cb
        /\ idle_mirror > 0 => ENABLED mirror_start

\* C31 as stated: shutdown() returns with no worker alive and both handles
\* None, before shutdown() the control path never waits, and a handle is
\* set to None by no step but the tick.
C31_JoinsAtShutdownTickElsewhere ==
    /\ []ShutdownJoinsAll
    /\ []NeverBlocks
    /\ [][(shut.at = "no" /\ shut'.at = "no" /\ HandleCleared)
             => menu_clock_timeout]_vars

\* C31: shutdown() returns with no worker alive and both handles None;
\* before shutdown() the control path never waits, and a handle is set to
\* None only by the tick or by the export request, each of which has found
\* the worker not alive.
C31_JoinsAtShutdownPollsElsewhere ==
    /\ []ShutdownJoinsAll
    /\ []NeverBlocks
    /\ [][(shut.at = "no" /\ shut'.at = "no" /\ HandleCleared)
             => /\ menu_clock_timeout \/ menu_data_export_activate_cb
                /\ (exporter # 0 /\ exporter' = 0) => ~Alive(exporter)
                /\ (mirror # 0 /\ mirror' = 0) => mirror \notin mirrors]_vars

\* shutdown() has returned after joining an export worker and a mirror
C31_Witness ==
    /\ shut.at = "returned"
    /\ shut.joined = {"exporter", "mirror"}

(***************************************************************************)
(* The export pass over any small dependency graph, with no control-path   *)
(* change of an event while passes run (SpecPass)                          *)
(***************************************************************************)
\* events in the directory of the pass specification
PassEvents == 3

\* every event depends on at most one other event, earlier or later in the
\* list, cycles included; any dirty flags, every event flagged for result
\* export, no mirror destination
InitPass ==
    /\ edb = [i \in 1..PassEvents |-> i]
    /\ depend \in {g \in [Events -> {<<>>} \cup {<<dev>> : dev \in Events}] :
                      \A e \in Events : e \notin Range(g[e])}
    /\ result = [e \in Events |-> TRUE]
    /\ mirrorpath = FALSE
    /\ InitMeet

NextPass ==
    \/ menu_data_export_activate_cb
    \/ \E t \in Slots : Worker(t)
    \/ menu_clock_timeout

SpecPass == InitPass /\ [][NextPass]_vars

\* worker t has checked every event and has cleared no flag yet
ScanDone(t) == threads[t].pc = "clear" /\ threads[t].i = 1

\* C32: the pass finds its dirty set before it clears a flag.  No step of
\* the scan clears a flag, so a flag set when the pass starts is set when
\* the scan is done; when the scan is done the dirty set holds exactly the
\* events that have a set flag at the end of a chain of depend entries
\* (their own included), wherever they stand in the event list, and the
\* flag of each of them is set; and a pass that gets to its end has
\* written the artifacts of every event of its dirty set.
C32_FullDirtySetFirst ==
    /\ [][\A t \in Slots :
             run_data_export_scan(t) => \A e \in Events : dirty[e] => dirty'[e]]_vars
    /\ [](\A t \in Slots :
             ScanDone(t) =>
                /\ Range(threads[t].dmap) = {e \in Events : ReachDirty(e, dirty)}
                /\ \A e \in Range(threads[t].dmap) : dirty[e])
    /\ [](\A t \in Slots :
             (PassFinishing(t) \/ threads[t].pc = "ended") =>
                \A e \in Range(threads[t].dmap) : artifact[e] = "all")

\* event 1 depends on 2 and 2 on 3, the reverse of the order of the list:
\* a pass has ended that had all three in its dirty set, event 3 put there
\* by its own flag and the others by the chain (the flags of 1 and 2 can
\* only have been set by the scan, which finds them before it gets to 3)
C32_Witness ==
    \E t \in Slots :
        /\ threads[t].pc = "ended"
        /\ threads[t].dmap = <<1, 2, 3>>
        /\ depend = <<<<2>>, <<3>>, <<>>>>
        /\ hist.n = 1
        /\ \A e \in Events : artifact[e] = "all" /\ ~dirty[e]

(***************************************************************************)
(* Closing and saving the open event while an export pass runs (SpecSave). *)
(* The handler's saveconfig() writes the event's configuration file and    *)
(* the worker's loadconfig() reads it; the control path and the worker are *)
(* two threads, so a handler of the control path is one step per           *)
(* statement that the worker can see.  Passes in this specification meet   *)
(* no I/O error.                                                           *)
(***************************************************************************)
\* saveconfig() calls on one event
MaxSaves == 2

\* the version f holds for x; 0 is the file the meet was loaded with
Ver(f, x) == IF x \in DOMAIN f THEN f[x] ELSE 0

Put(f, x, v) == [y \in DOMAIN f \cup {x} |-> IF y = x THEN v ELSE f[y]]

\* "r = mkrace(meet=self, event=e, ui=False); r.loadconfig()" and the
\* reports built from the handler
run_data_export_loadconfig(t) ==
    /\ threads[t].pc = "load"
    /\ LET evno == threads[t].dmap[threads[t].i] IN
          /\ loaded' = Put(loaded, t, Ver(conf, evno))
          /\ threads' = [threads EXCEPT ![t] =
                 IF result[evno]
                 THEN [@ EXCEPT !.pc = "write"]
                 ELSE [@ EXCEPT !.pc = "clear", !.i = @ + 1]]
    /\ UNCHANGED <<edb, depend, dirty, result, artifact, exporter, exportlock,
                   mirrors, mirror, idle_mirror, mirrorpath, lastCheck, hist,
                   commvars, autovars, wload, fieldvars, navvars, renumbered,
                   delayvars, shut, conf, expconf, ctl>>

\* the savefile blocks of one event, written from the handler loaded above
run_data_export_savefiles(t) ==
    /\ threads[t].pc = "write"
    /\ LET evno == threads[t].dmap[threads[t].i] IN
          /\ artifact' = [artifact EXCEPT ![evno] = "all"]
          /\ expconf' = Put(expconf, evno, loaded[t])
          /\ threads' = [threads EXCEPT ![t] =
                 [@ EXCEPT !.pc = "clear", !.i = @ + 1]]
    /\ UNCHANGED <<edb, depend, dirty, result, exporter, exportlock,
                   mirrors, mirror, idle_mirror, mirrorpath, lastCheck, hist,
                   commvars, autovars, wload, fieldvars, navvars, renumbered,
                   delayvars, shut, conf, loaded, ctl>>

\* close_event up to "delevent.event['dirt'] = True"
close_event_mark(e) ==
    /\ ctl = Idle
    /\ Ver(conf, e) < MaxSaves
    /\ dirty' = [dirty EXCEPT ![e] = TRUE]
    /\ hist' = NoHist
    /\ ctl' = [op |-> "close", ev |-> e]
    /\ UNCHANGED <<edb, depend, result, artifact, threads, exporter, exportlock,
                   mirrors, mirror, idle_mirror, mirrorpath, lastCheck,
                   commvars, autovars, wload, fieldvars, navvars, renumbered,
                   delayvars, shut, conf, loaded, expconf>>

\* close_event, "delevent.saveconfig()"
close_event_saveconfig ==
    /\ ctl.op = "close"
    /\ conf' = Put(conf, ctl.ev, Ver(conf, ctl.ev) + 1)
    /\ ctl' = Idle
    /\ UNCHANGED <<edb, depend, dirty, result, artifact, threads, exporter,
                   exportlock, mirrors, mirror, idle_mirror, mirrorpath,
                   lastCheck, hist,
                   commvars, autovars, wload, fieldvars, navvars, renumbered,
                   delayvars, shut, loaded, expconf>>

\* save_curevent up to "self.curevent.saveconfig()"
save_curevent_saveconfig(e) ==
    /\ ctl = Idle
    /\ Ver(conf, e) < MaxSaves
    /\ conf' = Put(conf, e, Ver(conf, e) + 1)
    /\ ctl' = [op |-> "save", ev |-> e]
    /\ UNCHANGED <<edb, depend, dirty, result, artifact, threads, exporter,
                   exportlock, mirrors, mirror, idle_mirror, mirrorpath,
                   lastCheck, hist,
                   commvars, autovars, wload, fieldvars, navvars, renumbered,
                   delayvars, shut, loaded, expconf>>

\* save_curevent, "self.curevent.event['dirt'] = True"
save_curevent_mark ==
    /\ ctl.op = "save"
    /\ dirty' = [dirty EXCEPT ![ctl.ev] = TRUE]
    /\ hist' = NoHist
    /\ ctl' = Idle
    /\ UNCHANGED <<edb, depend, result, artifact, threads, exporter, exportlock,
                   mirrors, mirror, idle_mirror, mirrorpath, lastCheck,
                   commvars, autovars, wload, fieldvars, navvars, renumbered,
                   delayvars, shut, conf, loaded, expconf>>

\* a meet whose events each depend on the one before, every event flagged
\* for result export, no mirror destination
InitSave ==
    /\ edb = [i \in 1..MeetEvents |-> i]
    /\ depend = [e \in Events |-> IF e = 1 THEN <<>> ELSE <<e - 1>>]
    /\ result = [e \in Events |-> TRUE]
    /\ mirrorpath = FALSE
    /\ InitMeet

\* callbacks of the control path run one after the other; the worker runs
\* beside them
NextSave ==
    \/ ctl = Idle /\ menu_data_export_activate_cb
    \/ ctl = Idle /\ menu_clock_timeout
    \/ \E t \in Slots : run_data_export_scan(t)
    \/ \E t \in Slots : run_data_export_clear(t)
    \/ \E t \in Slots : run_data_export_loadconfig(t)
    \/ \E t \in Slots : run_data_export_savefiles(t)
    \/ \E t \in Slots : run_data_export_end(t)
    \/ \E e \in Events : close_event_mark(e)
    \/ close_event_saveconfig
    \/ \E e \in Events : save_curevent_saveconfig(e)
    \/ save_curevent_mark

SpecSave == InitSave /\ [][NextSave]_vars

(***************************************************************************)
(* Properties of closing and saving beside a pass (SpecSave)               *)
(***************************************************************************)
\* C33: when the control path is between callbacks and no export worker is
\* alive, every event whose configuration was saved either has its dirty
\* flag set or has artifacts that show the configuration that was saved
\* last.
C33_SavedChangeExportedOrDirty ==
    (ctl = Idle /\ AliveExporters = {}) =>
        \A e \in Events :
            Ver(conf, e) > 0 =>
                \/ dirty[e]
                \/ artifact[e] = "all" /\ Ver(expconf, e) = Ver(conf, e)

(***************************************************************************)
(* Properties of the export request (Spec)                                 *)
(***************************************************************************)
\* C34: an export request made while no export worker is alive makes a new
\* thread object, hands it to self.exporter and starts it, also when the
\* handle still names a worker that ran and has finished.
C34_RequestStartsWhenNoneAlive ==
    [][(/\ menu_data_export_activate_cb
        /\ AliveExporters = {}
        /\ exporter # 0 => ~NeverStarted(exporter))
          => /\ exporter' # 0
             /\ threads'[exporter'].pc \in {"scan", "failed"}
             /\ threads'[exporter'].i <= 1
             /\ threads'[exporter'].dmap = <<>>]_vars

(***************************************************************************)
(* The mirror push after a pass (SpecMirror).  Idle callbacks, the tick    *)
(* and the threads keep running; nothing makes the user ask for another    *)
(* export.                                                                 *)
(***************************************************************************)
\* a meet with a mirror destination, every event flagged for result export
InitMirror ==
    /\ edb = [i \in 1..MeetEvents |-> i]
    /\ depend = [e \in Events |-> IF e = 1 THEN <<>> ELSE <<e - 1>>]
    /\ result = [e \in Events |-> TRUE]
    /\ mirrorpath = TRUE
    /\ InitMeet

NextMirror ==
    \/ menu_data_export_activate_cb
    \/ \E t \in Slots : Worker(t)
    \/ mirror_start
    \/ \E m \in Slots : mirror_completion(m)
    \/ menu_clock_timeout

SpecMirror ==
    /\ InitMirror /\ [][NextMirror]_vars
    /\ WF_vars(mirror_start)
    /\ WF_vars(menu_clock_timeout)
    /\ \A t \in Slots : WF_vars(Worker(t))
    /\ \A m \in Slots : WF_vars(mirror_completion(m))

\* C35: from the point where a pass has written its last artifact (the
\* worker is past the last event of its dirty set) a mirror thread is
\* started at some later point: whatever mirror is alive then ends, and
\* after that a mirror is alive again.
C35_PushFollowsPass ==
    [](((\E t \in Slots : PassFinishing(t)) /\ mirrorpath)
          => <>(mirrors = {} /\ <>(mirrors # {})))

(***************************************************************************)
(* Properties of a completed pass (Spec)                                   *)
(***************************************************************************)
\* C36: when a pass has run to its end with no error and with no close or
\* save of an event since it was requested (hist.n >= 1), no dirty flag is
\* set; and no artifact is ever written for an event that is not flagged
\* for result export.
C36_CleanAfterPass ==
    /\ hist.n >= 1 => \A e \in Events : ~dirty[e]
    /\ \A e \in Events : ~result[e] => artifact[e] = NoArtifact

\* a pass has ended that had in its dirty set an event not flagged for
\* result export: its flag is clear and it has no artifact
C36_Witness ==
    /\ hist.n = 1
    /\ \E t \in Slots :
          /\ threads[t].pc = "ended"
          /\ \E e \in Range(threads[t].dmap) :
                ~result[e] /\ ~dirty[e] /\ artifact[e] = NoArtifact

(***************************************************************************)
(* Properties of the references after a renumbering (SpecRenumber)         *)
(***************************************************************************)
\* event e names id in its depend list, in a group of its autospec or as
\* its reference, in the directory fields given
NamesId(dep, aut, ref, e, id) ==
    \/ id \in Range(dep[e])
    \/ \E k \in 1..Len(aut[e]) : aut[e][k].ok /\ aut[e][k].src = id
    \/ ref[e] = id

\* C37 as stated: when an event has been renumbered from oldevno to newevno
\* no event of the directory names oldevno, the renumbered event included.
C37_OldIdNamedNowhere ==
    [][\A oldevno \in Events, newevno \in NewIds :
          event_popup_edit_cb(oldevno, newevno) =>
              \A e \in Range(edb') : ~NamesId(depend', auto', refe', e, oldevno)]_vars

\* C37: when an event has been renumbered from oldevno to newevno no
\* other event names oldevno, and the renumbered event names oldevno
\* wherever it named it before.
C37_OldIdNamedOnlyByRenumbered ==
    [][\A oldevno \in Events, newevno \in NewIds :
          event_popup_edit_cb(oldevno, newevno) =>
              /\ \A e \in Range(edb') \ {newevno} :
                    ~NamesId(depend', auto', refe', e, oldevno)
              /\ \A k \in 1..Len(depend[oldevno]) :
                    depend[oldevno][k] = oldevno => depend'[newevno][k] = oldevno
              /\ \A k \in 1..Len(auto[oldevno]) :
                    (auto[oldevno][k].ok /\ auto[oldevno][k].src = oldevno)
                        => auto'[newevno][k].src = oldevno
              /\ refe[oldevno] = oldevno => refe'[newevno] = oldevno]_vars

\* event 1, which depends on itself and is seeded from itself, was
\* renumbered to 4: event 2 and the reference of event 3 name 4, event 4
\* names 1
C37_Witness ==
    /\ renumbered = 1
    /\ edb = << <<4>>, <<2>>, <<3>> >>
    /\ depend[<<2>>] = << <<4>>, <<4>> >>
    /\ refe[<<3>>] = <<4>>
    /\ depend[<<4>>] = << <<1>>, <<1>> >>
    /\ auto[<<4>>][1].src = <<1>>
    /\ auto[<<2>>][1].src = <<4>>

\* the first id base.N, N = 1, 2, ..., that no event holds
FirstUnused(base) ==
    LET N == CHOOSE c \in 1..(Len(edb) + 1) :
                 /\ Append(base, c) \notin Events
                 /\ \A b \in 1..(c - 1) : Append(base, b) \in Events
    IN Append(base, N)

MaxCalls == 3

\* what menu_data_export_activate_cb leaves when exportcb calls it with the
\* pass history h: a stale handle dropped, a live worker left alone, or a
\* new thread object whose start() returned or raised
export_request(h) ==
    IF exporter # 0
    THEN {[threads |-> IF Alive(exporter) THEN threads
                       ELSE [threads EXCEPT ![exporter] = NoThread],
           exporter |-> IF Alive(exporter) THEN exporter ELSE 0,
           hist |-> h]}
    ELSE {[threads |-> [threads EXCEPT ![t] =
                           IF started THEN [NoThread EXCEPT !.pc = "scan", !.i = 1]
                                      ELSE [NoThread EXCEPT !.pc = "failed"]],
           exporter |-> t,
           hist |-> IF started THEN [h EXCEPT !.clean = TRUE] ELSE NoHist] :
             t \in {u \in Slots : /\ threads[u].pc = "none"
                                  /\ \A v \in Slots : threads[v].pc = "none" => u <= v},
             started \in BOOLEAN}

\* open_event: the open event is closed (close_event marks it dirty and
\* saves it) and event e is opened
open_event(e) ==
    /\ curevent # e
    /\ curevent' = e
    /\ IF curevent # 0
       THEN dirty' = [dirty EXCEPT ![curevent] = TRUE] /\ hist' = NoHist
       ELSE UNCHANGED <<dirty, hist>>
    /\ UNCHANGED <<edb, depend, result, artifact, threads, exporter, exportlock,
                   mirrors, mirror, idle_mirror, mirrorpath, lastCheck,
                   commvars, autovars, wload, fieldvars, navvars, renumbered,
                   shut, savevars, exportpending, idle_export, batch>>

\* delayed_export: "self.exportpending = True; GLib.idle_add(self.exportcb)"
delayed_export ==
    /\ idle_export = 0 \/ batch.calls < MaxCalls
    /\ exportpending' = TRUE
    /\ idle_export' = idle_export + 1
    /\ batch' = IF idle_export = 0
                THEN [NoBatch EXCEPT !.calls = 1]
                ELSE [batch EXCEPT !.calls = @ + 1, !.late = @ \/ batch.ran > 0]
    /\ UNCHANGED <<edb, depend, dirty, result, artifact, threads, exporter,
                   exportlock, mirrors, mirror, idle_mirror, mirrorpath,
                   lastCheck, hist,
                   commvars, autovars, wload, fieldvars, navvars, renumbered,
                   shut, savevars, curevent>>

\* exportcb without "if not self.exportpending: return False"
exportcb_no_pending_test ==
    /\ idle_export > 0
    /\ idle_export' = idle_export - 1
    /\ exportpending' = FALSE
    /\ dirty' = IF curevent # 0 THEN [dirty EXCEPT ![curevent] = TRUE] ELSE dirty
    /\ \E o \in export_request(IF curevent # 0 THEN NoHist ELSE hist) :
          /\ threads' = o.threads
          /\ exporter' = o.exporter
          /\ hist' = o.hist
    /\ batch' = [batch EXCEPT !.ran = @ + 1, !.requests = @ + 1,
                              !.saves = @ + (IF curevent # 0 THEN 1 ELSE 0)]
    /\ UNCHANGED <<edb, depend, result, artifact,
                   exportlock, mirrors, mirror, idle_mirror, mirrorpath,
                   lastCheck,
                   commvars, autovars, wload, fieldvars, navvars, renumbered,
                   shut, savevars, curevent>>

\* exportcb, run from the idle queue: nothing when the pending flag is
\* clear; else the flag is cleared, the open event is saved (save_curevent
\* marks it dirty) and menu_data_export_activate_cb is called
exportcb ==
    /\ idle_export > 0
    /\ idle_export' = idle_export - 1
    /\ IF ~exportpending
       THEN /\ batch' = [batch EXCEPT !.ran = @ + 1]
            /\ UNCHANGED <<exportpending, dirty, threads, exporter, hist>>
       ELSE /\ exportpending' = FALSE
            /\ dirty' = IF curevent # 0 THEN [dirty EXCEPT ![curevent] = TRUE]
                        ELSE dirty
            /\ \E o \in export_request(IF curevent # 0 THEN NoHist ELSE hist) :
                  /\ threads' = o.threads
                  /\ exporter' = o.exporter
                  /\ hist' = o.hist
            /\ batch' = [batch EXCEPT !.ran = @ + 1, !.requests = @ + 1,
                                      !.saves = @ + (IF curevent # 0 THEN 1 ELSE 0)]
    /\ UNCHANGED <<edb, depend, result, artifact,
                   exportlock, mirrors, mirror, idle_mirror, mirrorpath,
                   lastCheck,
                   commvars, autovars, wload, fieldvars, navvars, renumbered,
                   shut, savevars, curevent>>

\* a meet whose events each depend on the one before, every event flagged
\* for result export, no mirror destination, no event open
InitDelayed ==
    /\ edb = [i \in 1..MeetEvents |-> i]
    /\ depend = [e \in Events |-> IF e = 1 THEN <<>> ELSE <<e - 1>>]
    /\ result = [e \in Events |-> TRUE]
    /\ mirrorpath = FALSE
    /\ InitMeet

NextDelayed ==
    \/ delayed_export
    \/ exportcb
    \/ \E e \in Events : open_event(e)
    \/ \E t \in Slots : Worker(t)
    \/ menu_clock_timeout

SpecDelayed == InitDelayed /\ [][NextDelayed]_vars

(***************************************************************************)
(* Properties of the delayed export (SpecDelayed)                          *)
(***************************************************************************)
\* C39: of the delayed_export calls made while an exportcb is queued, as
\* long as none is made after an exportcb of theirs has run, the first
\* exportcb that runs makes the one export request (and at most one save)
\* and every later one makes none; and an exportcb that finds the pending
\* flag clear changes nothing but the queue.
C39_DelayedExportsCoalesced ==
    /\ []((~batch.late /\ batch.ran >= 1) =>
             (batch.requests = 1 /\ batch.saves <= 1))
    /\ [][(exportcb /\ ~exportpending) =>
             UNCHANGED <<dirty, artifact, threads, exporter, hist,
                         exportpending, savevars>>]_vars

\* three delayed_export calls, then all three exportcb callbacks have run:
\* one request and one save of the open event
C39_Witness ==
    /\ batch = [calls |-> 3, ran |-> 3, saves |-> 1, requests |-> 1, late |-> FALSE]
    /\ idle_export = 0
    /\ ~exportpending

(***************************************************************************)
(* Place aggregation: the tie groups returned by autoplace_riders          *)
(***************************************************************************)
\* group i of the last resolution is read: it is well formed, its source
\* is an event of the meet, and the source's standing is 'Result' when
\* final sources are required
GroupRead(i) ==
    LET g == lastAuto.autospec[i] IN
    /\ g.ok
    /\ g.src \in Events
    /\ (lastAuto.final => standing[g.src])

\* the riders group i gives to rank r: the riders of integer rank r in the
\* results of its source, in result order, when its place set names r
GroupRiders(r, i) ==
    LET g == lastAuto.autospec[i] IN
    IF GroupRead(i) /\ InTokens(r, g.places)
    THEN LET at == SelectSeq(results[g.src],
                             LAMBDA ri : ri[2].kind = "int" /\ ri[2].v = r)
         IN [k \in 1..Len(at) |-> at[k][1]]
    ELSE <<>>

\* the riders groups 1..i give to rank r, group after group
RECURSIVE TieGroup(_, _)
TieGroup(r, i) ==
    IF i = 0 THEN <<>> ELSE TieGroup(r, i - 1) \o GroupRiders(r, i)

\* the ranks some group gives a rider to
RanksFound ==
    {r \in 1..3 : TieGroup(r, Len(lastAuto.autospec)) # <<>>}

\* C40: the tie groups returned by autoplace_riders are those of the ranks
\* found, one group per rank, in ascending numeric order of rank whatever
\* the order of the groups and of the ranks within the place sets; the tie
\* group of a rank holds the riders of that rank from every group, in group
\* order and, within a group, in the result order of its source.
C40_TieGroupsAscendingInGroupOrder ==
    (Resolved /\ lastAuto.form = "place" /\ ~lastAuto.raised /\ ~lastAuto.over) =>
        /\ Len(lastAuto.places) = Cardinality(RanksFound)
        /\ \A r \in RanksFound :
              lastAuto.places[Cardinality({q \in RanksFound : q < r}) + 1]
                  = TieGroup(r, Len(lastAuto.autospec))

\* "3 1 2" over event 1 followed by "1-2" over event 2, both with ranks 1,
\* 2 and 3: the riders of ranks 1 and 2 of both events are tied in group
\* order, and rank 3, written first, comes last
C40_Witness ==
    /\ Resolved
    /\ lastAuto.form = "place"
    /\ lastAuto.autospec = <<Group(1, Places312), Group(2, Places1to2)>>
    /\ results[1] = PlainResult(1)
    /\ results[2] = PlainResult(2)
    /\ lastAuto.places = <<<<11, 21>>, <<12, 22>>, <<13>>>>

====
